---- MODULE Spec2Model ----
(***************************************************************************)
(* A model of the xir type checker (xir/src/validate.rs): type             *)
(* unification (check_unify), stack-shape unification                      *)
(* (check_unify_stack), the operand stack simulator (tycheck_expr), the    *)
(* block replay (tycheck_block), the function driver (tycheck_function)    *)
(* and the two passes of tycheck.                                          *)
(*                                                                         *)
(* A panic of the Rust code (assert!, unwrap, todo!, index out of range)   *)
(* is the result "panic"; unbounded recursion is the result "overflow".    *)
(***************************************************************************)
EXTENDS Integers, Sequences, FiniteSets, TLC

(***************************************************************************)
(* Bounds of the model.                                                    *)
(***************************************************************************)
\* recursion depth after which a call chain of check_unify counts as unbounded
MaxFuel == 6
\* instructions replayed per function body
MaxItems == 4
\* height of the simulated stack
MaxStack == 3
\* nesting depth of blocks (the root block is at depth 0)
MaxNest == 1

(***************************************************************************)
(* The IR data model, as validate.rs matches on it.                        *)
(***************************************************************************)
Null == [tag |-> "Null"]
Void == [tag |-> "Void"]

\* ScalarType {header: {bitsize, vectorsize}, kind}; p is the payload the
\* kind carries (signed, decimal, fractbits, flags), max the Integer bound
Scalar(bits, vec, kind, p, max) ==
    [tag |-> "Scalar", bitsize |-> bits, vectorsize |-> vec, kind |-> kind,
     p |-> p, max |-> max]

IntTy(bits, signed) == Scalar(bits, 0, "Integer", signed, 0)

\* PointerType {alias, valid_range, decl, inner}
Pointer(alias, range, decl, inner) ==
    [tag |-> "Pointer", alias |-> alias, valid_range |-> range, decl |-> decl,
     inner |-> inner]

\* PointerType {inner, ..Default::default()}
DefaultPointer(inner) == Pointer("None", "None", 0, inner)

\* FnType {ret, params, tag, variadic}
FnType(ret, params, abi, variadic) ==
    [tag |-> "FnType", ret |-> ret, params |-> params, abi |-> abi,
     variadic |-> variadic]

Product(tys) == [tag |-> "Product", tys |-> tys]

\* AggregateDefinition {annotations, kind, fields}; a field is <<name, type>>
Aggregate(kind, annotations, fields) ==
    [tag |-> "Aggregate", kind |-> kind, annotations |-> annotations,
     fields |-> fields]

\* Value::Integer {ty, val} and the values that are no Integer
IntegerValue(sty, val) == [vtag |-> "Integer", ty |-> sty, val |-> val]
UninitValue(ty) == [vtag |-> "Uninitialized", ty |-> ty]

\* ArrayType {ty, len}
Array(elem, len) == [tag |-> "Array", ty |-> elem, len |-> len]

Named(path) == [tag |-> "Named", path |-> path]
TaggedType(n, inner) == [tag |-> "TaggedType", n |-> n, inner |-> inner]
Aligned(align, inner) == [tag |-> "Aligned", align |-> align, inner |-> inner]

\* StackItem {ty, kind}
Item(ty, kind) == [ty |-> ty, kind |-> kind]
RValue(ty) == Item(ty, "RValue")
LValue(ty) == Item(ty, "LValue")

(***************************************************************************)
(* TypeState::refiy_type: one step of resolution. A Named type becomes its *)
(* entry of the global type table, or stays itself when it has none; one   *)
(* TaggedType / Aligned wrapper is removed.                                *)
(***************************************************************************)
refiy_type(tystate, ty) ==
    CASE ty.tag = "Named" ->
           IF ty.path \in DOMAIN tystate.tys THEN tystate.tys[ty.path] ELSE ty
      [] ty.tag \in {"TaggedType", "Aligned"} -> ty.inner
      [] OTHER -> ty

Min(a, b) == IF a < b THEN a ELSE b

(***************************************************************************)
(* check_unify. The arms are those of the match at validate.rs:80, in      *)
(* order; every assert_eq! / panic! is the result "panic".                 *)
(***************************************************************************)
\* the match on (sty1.kind, sty2.kind), validate.rs:94-129
unify_scalar_kind(sty1, sty2) ==
    CASE sty1.kind = "Integer" /\ sty2.kind = "Integer" ->
           IF sty1.p = sty2.p THEN "ok" ELSE "panic"
      [] sty1.kind = "Fixed" /\ sty2.kind = "Fixed" ->
           IF sty1.p = sty2.p THEN "ok" ELSE "panic"
      [] sty1.kind = "Char" /\ sty2.kind = "Char" ->
           IF sty1.p = sty2.p THEN "ok" ELSE "panic"
      [] sty1.kind = "Float" /\ sty2.kind = "Float" ->
           IF sty1.p = sty2.p THEN "ok" ELSE "panic"
      [] sty1.kind = "LongFloat" /\ sty2.kind = "LongFloat" -> "ok"
      [] OTHER -> "panic"

unify_scalar(sty1, sty2) ==
    IF sty1.bitsize # sty2.bitsize THEN "panic"
    ELSE IF sty1.vectorsize # sty2.vectorsize THEN "panic"
    ELSE unify_scalar_kind(sty1, sty2)

\* the arm (Type::Null, _) | (_, Type::Null), validate.rs:81
wildcard_left(a, b) == a.tag = "Null"

wildcard(a, b) == a.tag = "Null" \/ b.tag = "Null"

RECURSIVE check_unify_fuel(_, _, _, _)
RECURSIVE unify_zip(_, _, _, _, _)
RECURSIVE unify_fields(_, _, _, _, _)

\* the zip of two lists asserted to be of one length
RECURSIVE unify_zip_strict(_, _, _, _, _)
unify_zip_strict(xs, ys, i, tystate, fuel) ==
    IF Len(xs) # Len(ys) THEN "panic"
    ELSE IF i > Len(xs) THEN "ok"
    ELSE LET r == check_unify_fuel(xs[i], ys[i], tystate, fuel)
         IN  IF r # "ok" THEN r ELSE unify_zip_strict(xs, ys, i + 1, tystate, fuel)

\* xs.iter().zip(ys).for_each(check_unify), from position i on
unify_zip(xs, ys, i, tystate, fuel) ==
    IF i > Min(Len(xs), Len(ys)) THEN "ok"
    ELSE LET r == check_unify_fuel(xs[i], ys[i], tystate, fuel)
         IN  IF r # "ok" THEN r ELSE unify_zip(xs, ys, i + 1, tystate, fuel)

\* defn1.fields.iter().zip(&defn2.fields): unify the types, then compare the names
unify_fields(fs1, fs2, i, tystate, fuel) ==
    IF i > Min(Len(fs1), Len(fs2)) THEN "ok"
    ELSE LET r == check_unify_fuel(fs1[i][2], fs2[i][2], tystate, fuel)
         IN  IF r # "ok" THEN r
             ELSE IF fs1[i][1] # fs2[i][1] THEN "panic"
             ELSE unify_fields(fs1, fs2, i + 1, tystate, fuel)

check_unify_fuel(ty1, ty2, tystate, fuel) ==
    IF fuel = 0 THEN "overflow"
    ELSE
    LET a == refiy_type(tystate, ty1)
        b == refiy_type(tystate, ty2)
    IN  CASE wildcard(a, b) -> "ok"
          [] a.tag = "Scalar" /\ b.tag = "Scalar" -> unify_scalar(a, b)
          [] a.tag = "FnType" /\ b.tag = "FnType" ->
               IF a.abi # b.abi THEN "panic"
               ELSE IF a.variadic # b.variadic THEN "panic"
               ELSE IF Len(a.params) # Len(b.params) THEN "panic"
               ELSE LET r == unify_zip(a.params, b.params, 1, tystate, fuel - 1)
                    IN  IF r # "ok" THEN r
                        ELSE check_unify_fuel(a.ret, b.ret, tystate, fuel - 1)
          [] a.tag = "Pointer" /\ b.tag = "Pointer" ->
               check_unify_fuel(a.inner, b.inner, tystate, fuel - 1)
          [] a.tag = "Product" /\ b.tag = "Product" ->
               unify_zip(a.tys, b.tys, 1, tystate, fuel - 1)
          [] a.tag = "Aggregate" /\ b.tag = "Aggregate" ->
               IF a.kind # b.kind THEN "panic"
               ELSE IF a.annotations # b.annotations THEN "panic"
               ELSE unify_fields(a.fields, b.fields, 1, tystate, fuel - 1)
          [] a.tag = "Array" /\ b.tag = "Array" ->
               IF a.len.vtag = "Integer" /\ b.len.vtag = "Integer"
               THEN LET r == check_unify_fuel(a.len.ty, b.len.ty, tystate, fuel - 1)
                    IN  IF r # "ok" THEN r
                        ELSE IF a.len.val # b.len.val THEN "panic" ELSE "ok"
               ELSE "panic"
          [] a.tag = "Named" /\ b.tag = "Named" ->
               IF a.path = b.path THEN "ok" ELSE "panic"
          [] OTHER -> "panic"

check_unify(ty1, ty2, tystate) == check_unify_fuel(ty1, ty2, tystate, MaxFuel)

(***************************************************************************)
(* check_unify_stack: the top Len(target) items of stack against target.   *)
(* stack.len() - target.len() underflows when the stack is the shorter     *)
(* one: a panic in a debug build, and in a release build the wrapped       *)
(* index is out of range of the slice, a panic too.                        *)
(***************************************************************************)
RECURSIVE unify_items(_, _, _, _)
unify_items(xs, ys, i, tystate) ==
    IF i > Min(Len(xs), Len(ys)) THEN "ok"
    ELSE IF xs[i].kind # ys[i].kind THEN "panic"
    ELSE LET r == check_unify(xs[i].ty, ys[i].ty, tystate)
         IN  IF r # "ok" THEN r ELSE unify_items(xs, ys, i + 1, tystate)

\* check_unify_stack with begin = stack.len().saturating_sub(target.len())
check_unify_stack_saturating(stack, target, tystate) ==
    LET begin == IF Len(stack) < Len(target) THEN 0 ELSE Len(stack) - Len(target)
    IN  unify_items(SubSeq(stack, begin + 1, Len(stack)), target, 1, tystate)

\* check_unify_stack on the first target.len() items of stack
check_unify_stack_bottom(stack, target, tystate) ==
    IF Len(stack) < Len(target) THEN "panic"
    ELSE unify_items(SubSeq(stack, 1, Len(target)), target, 1, tystate)

\* check_unify_stack that takes the whole stack for the window
check_unify_stack_whole(stack, target, tystate) ==
    IF Len(stack) # Len(target) THEN "panic"
    ELSE unify_items(stack, target, 1, tystate)

check_unify_stack(stack, target, tystate) ==
    IF Len(stack) < Len(target) THEN "panic"
    ELSE LET begin == Len(stack) - Len(target)
         IN  unify_items(SubSeq(stack, begin + 1, Len(stack)), target, 1, tystate)

(***************************************************************************)
(* Vec (xlang_abi/src/vec.rs), as the validator uses it: the contents.     *)
(***************************************************************************)
\* Vec::split_off(n): <<what stays, what is returned>>
split_off(v, n) == <<SubSeq(v, 1, n), SubSeq(v, n + 1, Len(v))>>

\* Vec::split_off_back(n): the last n elements are returned
split_off_back(v, n) ==
    <<SubSeq(v, 1, Len(v) - n), SubSeq(v, Len(v) - n + 1, Len(v))>>

\* Vec::pop of a non-empty Vec: <<what stays, the element>>
pop(v) == <<SubSeq(v, 1, Len(v) - 1), v[Len(v)]>>

\* Option<Vec<StackItem>>
None == [some |-> FALSE, items |-> <<>>]
Some(items) == [some |-> TRUE, items |-> items]

(***************************************************************************)
(* tycheck_expr, one operator per arm of the match on the instruction.    *)
(* A result is the outcome, the stack and the block-exit table the arm     *)
(* leaves, the instruction as the arm leaves it, and for a panic the       *)
(* assertion that failed.                                                  *)
(***************************************************************************)
Ok(expr, vs, exits) ==
    [res |-> "ok", err |-> "none", vstack |-> vs, exits |-> exits, expr |-> expr]
Panic(expr, why) ==
    [res |-> "panic", err |-> why, vstack |-> <<>>, exits |-> <<>>, expr |-> expr]
\* the outcome of a check_unify call that did not return
Failed(expr, r) == Panic(expr, IF r = "overflow" THEN "overflow" ELSE "unify")

\* Expr::Const, validate.rs:238-292
expr_Const(expr, vstack, exits, targets, tystate) ==
    LET v == expr.v IN
    CASE v.vtag \in {"Invalid", "String", "Uninitialized"} ->
           Ok(expr, Append(vstack, RValue(v.ty)), exits)
      [] v.vtag = "GenericParameter" -> Panic(expr, "todo")
      [] v.vtag = "Integer" -> Ok(expr, Append(vstack, RValue(v.ty)), exits)
      [] v.vtag = "GlobalAddress" ->
           LET ty == IF v.ty = Null /\ v.item \in DOMAIN tystate.tys
                     THEN tystate.tys[v.item] ELSE v.ty
           IN  Ok([expr EXCEPT !.v.ty = ty],
                  Append(vstack, RValue(DefaultPointer(ty))), exits)
      [] v.vtag = "ByteString" ->
           Ok(expr, Append(vstack, RValue(DefaultPointer(IntTy(8, 0)))), exits)
      [] v.vtag = "LabelAddress" ->
           IF v.n \notin DOMAIN targets THEN Panic(expr, "index")
           ELSE IF Len(targets[v.n]) # 0 THEN Panic(expr, "label")
           ELSE Ok(expr, Append(vstack, RValue(DefaultPointer(Void))), exits)

\* Expr::ExitBlock without the assertion of validate.rs:300
expr_ExitBlock_unasserted(expr, vstack, exits, tystate) ==
    IF expr.blk >= Len(exits) THEN Panic(expr, "index")
    ELSE IF Len(vstack) < expr.values THEN Panic(expr, "underflow")
    ELSE LET exit  == exits[expr.blk + 1]
             sp    == split_off(vstack, Len(vstack) - expr.values)
             stack == sp[2]
         IN  IF ~exit.some
             THEN Ok(expr, sp[1], [exits EXCEPT ![expr.blk + 1] = Some(stack)])
             ELSE LET r == check_unify_stack(stack, exit.items, tystate)
                  IN  IF r # "ok" THEN Failed(expr, r)
                      ELSE Ok(expr, sp[1], exits)

\* Expr::ExitBlock where every accepted exit is recorded, the last one wins
expr_ExitBlock_overwrite(expr, vstack, exits, tystate) ==
    IF expr.blk >= Len(exits) THEN Panic(expr, "index")
    ELSE IF Len(vstack) < expr.values THEN Panic(expr, "underflow")
    ELSE LET exit  == exits[expr.blk + 1]
             sp    == split_off(vstack, Len(vstack) - expr.values)
             stack == sp[2]
             rec   == [exits EXCEPT ![expr.blk + 1] = Some(stack)]
         IN  IF ~exit.some THEN Ok(expr, sp[1], rec)
             ELSE IF Len(exit.items) # expr.values THEN Panic(expr, "exitlen")
             ELSE LET r == check_unify_stack(stack, exit.items, tystate)
                  IN  IF r # "ok" THEN Failed(expr, r)
                      ELSE Ok(expr, sp[1], rec)

\* Expr::ExitBlock, validate.rs:293-304 (exits[blk + 1] is block_exits[blk])
expr_ExitBlock(expr, vstack, exits, tystate) ==
    IF expr.blk >= Len(exits) THEN Panic(expr, "index")
    ELSE IF Len(vstack) < expr.values THEN Panic(expr, "underflow")
    ELSE LET exit  == exits[expr.blk + 1]
             sp    == split_off(vstack, Len(vstack) - expr.values)
             stack == sp[2]
         IN  IF ~exit.some
             THEN Ok(expr, sp[1], [exits EXCEPT ![expr.blk + 1] = Some(stack)])
             ELSE IF Len(exit.items) # expr.values THEN Panic(expr, "exitlen")
             ELSE LET r == check_unify_stack(stack, exit.items, tystate)
                  IN  IF r # "ok" THEN Failed(expr, r)
                      ELSE Ok(expr, sp[1], exits)

\* the function type a call finds behind its callee, validate.rs:441-443, or
\* Null when the callee is no pointer to a function
callee_type(dest, tystate) ==
    LET dty == refiy_type(tystate, dest.ty)
    IN  IF dty.tag # "Pointer" THEN Null
        ELSE LET ty == refiy_type(tystate, dty.inner)
             IN  IF ty.tag # "FnType" THEN Null ELSE ty

\* the arity assertions of a call, validate.rs:444-448: the non-variadic arm
\* compares the call-site parameter count with itself
call_arity(ty, fnty) ==
    IF ty.variadic THEN Len(ty.params) <= Len(fnty.params)
    ELSE Len(fnty.params) = Len(fnty.params)

\* params.iter().zip(&fnty.params): each argument an r-value that unifies
RECURSIVE call_args(_, _, _, _)
call_args(params, ptys, i, tystate) ==
    IF i > Min(Len(params), Len(ptys)) THEN "ok"
    ELSE IF params[i].kind # "RValue" THEN "kind"
    ELSE LET r == check_unify(params[i].ty, ptys[i], tystate)
         IN  IF r # "ok" THEN r ELSE call_args(params, ptys, i + 1, tystate)

\* a call that pushes its result as an l-value
call_result_lvalue(fnty) == LValue(fnty.ret)

\* the item a call pushes, validate.rs:473-476
call_result(fnty) == RValue(fnty.ret)

\* Expr::CallFunction, validate.rs:432-477
expr_CallFunction(expr, vstack, exits, tystate) ==
    LET fnty == expr.fnty IN
    IF Len(fnty.params) > Len(vstack) THEN Panic(expr, "underflow")
    ELSE
    LET sp     == split_off_back(vstack, Len(fnty.params))
        params == sp[2]
    IN  IF sp[1] = <<>> THEN Panic(expr, "underflow")
        ELSE
        LET pp   == pop(sp[1])
            dest == pp[2]
            ty   == callee_type(dest, tystate)
        IN  IF fnty.variadic THEN Panic(expr, "variadic")
            ELSE IF dest.kind # "RValue" THEN Panic(expr, "kind")
            ELSE IF ty = Null THEN Panic(expr, "callee")
            ELSE IF ~call_arity(ty, fnty) THEN Panic(expr, "arity")
            ELSE
            LET r1 == unify_zip(ty.params, fnty.params, 1, tystate, MaxFuel)
                r2 == check_unify(ty.ret, fnty.ret, tystate)
                r3 == call_args(params, fnty.params, 1, tystate)
            IN  IF r1 # "ok" THEN Failed(expr, r1)
                ELSE IF r2 # "ok" THEN Failed(expr, r2)
                ELSE IF r3 = "kind" THEN Panic(expr, "kind")
                ELSE IF r3 # "ok" THEN Failed(expr, r3)
                ELSE Ok(expr, Append(pp[1], call_result(fnty)), exits)

\* the condition of a Branch without the assertion of validate.rs:483-488
branch_ctrl_kindless(ctrl, tystate) ==
    LET ty == refiy_type(tystate, ctrl.ty)
    IN  IF ty.tag = "Scalar" /\ ty.kind = "Integer" THEN "ok" ELSE "ctrl"

\* the condition a Branch pops: an r-value whose reified type is an integer
branch_ctrl(ctrl, tystate) ==
    IF ctrl.kind # "RValue" THEN "kind"
    ELSE LET ty == refiy_type(tystate, ctrl.ty)
         IN  IF ty.tag = "Scalar" /\ ty.kind = "Integer" THEN "ok" ELSE "ctrl"

\* Expr::Branch, validate.rs:478-502
expr_Branch(expr, vstack, exits, targets, tystate) ==
    LET popped == expr.cond \notin {"Always", "Never"}
        c      == IF ~popped THEN "ok"
                  ELSE IF vstack = <<>> THEN "underflow"
                  ELSE branch_ctrl(pop(vstack)[2], tystate)
        vs     == IF popped /\ vstack # <<>> THEN pop(vstack)[1] ELSE vstack
    IN  IF c # "ok" THEN Panic(expr, c)
        ELSE IF expr.target \notin DOMAIN targets THEN Panic(expr, "index")
        ELSE LET r == check_unify_stack(vs, targets[expr.target], tystate)
             IN  IF r = "overflow" THEN Panic(expr, "overflow")
                 ELSE IF r # "ok" THEN Panic(expr, "stack")
                 ELSE Ok(expr, vs, exits)

\* Expr::Local, validate.rs:536-539 (locals[n + 1] is locals[n])
expr_Local(expr, vstack, exits, locals) ==
    IF expr.n >= Len(locals) THEN Panic(expr, "index")
    ELSE Ok(expr, Append(vstack, LValue(locals[expr.n + 1])), exits)

\* Expr::Pop, validate.rs:540-543
expr_Pop(expr, vstack, exits) ==
    IF Len(vstack) < expr.n THEN Panic(expr, "underflow")
    ELSE Ok(expr, SubSeq(vstack, 1, Len(vstack) - expr.n), exits)

\* Assign without the assertion of validate.rs:614
assign_kinds_rvalue(rvalue, lvalue) == rvalue.kind = "RValue"

\* the kinds Assign requires of the two items it pops, validate.rs:613-614
assign_kinds(rvalue, lvalue) == rvalue.kind = "RValue" /\ lvalue.kind = "LValue"

\* Expr::Assign, validate.rs:609-617
expr_Assign(expr, vstack, exits, tystate) ==
    IF Len(vstack) < 2 THEN Panic(expr, "underflow")
    ELSE LET rvalue == vstack[Len(vstack)]
             lvalue == vstack[Len(vstack) - 1]
         IN  IF ~assign_kinds(rvalue, lvalue) THEN Panic(expr, "kind")
             ELSE LET r == check_unify(rvalue.ty, lvalue.ty, tystate)
                  IN  IF r # "ok" THEN Failed(expr, r)
                      ELSE Ok(expr, SubSeq(vstack, 1, Len(vstack) - 2), exits)

\* Expr::AsRValue, validate.rs:618-626
expr_AsRValue(expr, vstack, exits) ==
    IF vstack = <<>> THEN Panic(expr, "underflow")
    ELSE LET val == pop(vstack)[2]
         IN  IF val.kind # "LValue" THEN Panic(expr, "kind")
             ELSE Ok(expr, Append(pop(vstack)[1], RValue(val.ty)), exits)

\* Expr::Indirect, validate.rs:756-770: the popped type is matched as it is,
\* without refiy_type
expr_Indirect(expr, vstack, exits) ==
    IF vstack = <<>> THEN Panic(expr, "underflow")
    ELSE LET val == pop(vstack)[2]
         IN  IF val.kind # "RValue" THEN Panic(expr, "kind")
             ELSE IF val.ty.tag # "Pointer" THEN Panic(expr, "indirect")
             ELSE Ok(expr, Append(pop(vstack)[1], LValue(val.ty.inner)), exits)

\* Expr::AddrOf, validate.rs:771-782: only val.ty is assigned, the kind of
\* the item pushed back is the kind it was popped with
expr_AddrOf(expr, vstack, exits) ==
    IF vstack = <<>> THEN Panic(expr, "underflow")
    ELSE LET val == pop(vstack)[2]
         IN  IF val.kind # "LValue" THEN Panic(expr, "kind")
             ELSE Ok(expr,
                     Append(pop(vstack)[1], Item(DefaultPointer(val.ty), val.kind)),
                     exits)

\* Expr::BranchIndirect, validate.rs:503-520
expr_BranchIndirect(expr, vstack, exits, tystate) ==
    IF vstack = <<>> THEN Panic(expr, "underflow")
    ELSE LET target == pop(vstack)[2]
         IN  IF target.kind # "RValue" THEN Panic(expr, "kind")
             ELSE LET r == check_unify(target.ty, DefaultPointer(Void), tystate)
                  IN  IF r # "ok" THEN Failed(expr, r)
                      ELSE Ok(expr, pop(vstack)[1], exits)

\* Expr::Pivot that puts the two groups back in the order it took them in
expr_Pivot_back(expr, vstack, exits) ==
    IF Len(vstack) < expr.m THEN Panic(expr, "underflow")
    ELSE IF Len(vstack) - expr.m < expr.n THEN Panic(expr, "underflow")
    ELSE LET back1 == Len(vstack) - expr.m
             back2 == back1 - expr.n
             sp1 == split_off(vstack, back1)
             sp2 == split_off(sp1[1], back2)
         IN  Ok(expr, sp2[1] \o sp2[2] \o sp1[2], exits)

\* Expr::Pivot, validate.rs:550-557: stack1 is the top m items, stack2 the n
\* items below them
expr_Pivot(expr, vstack, exits) ==
    IF Len(vstack) < expr.m THEN Panic(expr, "underflow")
    ELSE IF Len(vstack) - expr.m < expr.n THEN Panic(expr, "underflow")
    ELSE LET back1 == Len(vstack) - expr.m
             back2 == back1 - expr.n
             sp1 == split_off(vstack, back1)
             sp2 == split_off(sp1[1], back2)
         IN  Ok(expr, sp2[1] \o sp1[2] \o sp2[2], exits)

\* Expr::Derive that writes the pointee type it unified into the annotation
\* of the instruction
expr_Derive_annotating(expr, r, tystate) ==
    IF r.res # "ok" THEN Panic(expr, r.err)
    ELSE IF r.vstack = <<>> THEN Panic(expr, "underflow")
    ELSE LET ptr == pop(r.vstack)[2]
             e   == [expr EXCEPT !.inner = r.expr]
         IN  IF ptr.kind # "RValue" THEN Panic(e, "kind")
             ELSE IF ptr.ty.tag # "Pointer" THEN Panic(e, "derive")
             ELSE LET u == check_unify(expr.pty.inner, ptr.ty.inner, tystate)
                  IN  IF u # "ok" THEN Failed(e, u)
                      ELSE Ok([e EXCEPT !.pty.inner = ptr.ty.inner],
                              pop(r.vstack)[1], r.exits)

\* Expr::Derive, validate.rs:522-535; r is what tycheck_expr returns for the
\* inner expression. The pointer is popped into a local, the local is
\* refined, and nothing is pushed
expr_Derive(expr, r, tystate) ==
    IF r.res # "ok" THEN Panic(expr, r.err)
    ELSE IF r.vstack = <<>> THEN Panic(expr, "underflow")
    ELSE LET ptr == pop(r.vstack)[2]
             e   == [expr EXCEPT !.inner = r.expr]
         IN  IF ptr.kind # "RValue" THEN Panic(e, "kind")
             ELSE IF ptr.ty.tag # "Pointer" THEN Panic(e, "derive")
             ELSE LET u == check_unify(expr.pty.inner, ptr.ty.inner, tystate)
                  IN  IF u # "ok" THEN Failed(e, u)
                      ELSE Ok(e, pop(r.vstack)[1], r.exits)

\* the control value a Switch pops, validate.rs:789-802
switch_ctrl(ctrl, tystate) ==
    IF ctrl.kind # "RValue" THEN "kind"
    ELSE LET ty == refiy_type(tystate, ctrl.ty)
         IN  IF ty.tag = "Scalar" /\ ty.kind = "Integer" THEN "ok" ELSE "ctrl"

\* the comparison of a later case's shape without the assertion of
\* validate.rs:819-826
case_shapes_zip(stack, tstack, tystate) ==
    LET r == unify_items(stack, tstack, 1, tystate)
    IN  IF r = "overflow" THEN r ELSE IF r # "ok" THEN "stack" ELSE "ok"

\* a later case's shape tstack against the first case's, validate.rs:818-830
case_shapes(stack, tstack, tystate) ==
    IF Len(stack) # Len(tstack) THEN "stack"
    ELSE LET r == unify_items(stack, tstack, 1, tystate)
         IN  IF r = "overflow" THEN r ELSE IF r # "ok" THEN "stack" ELSE "ok"

\* the loop over the cases of a Hash switch from case i on, validate.rs:808-835;
\* ustack is the shape of the first case once it was seen
RECURSIVE switch_cases(_, _, _, _, _, _, _)
switch_cases(cases, i, ustack, ctrl, vstack, targets, tystate) ==
    IF i > Len(cases) THEN "ok"
    ELSE LET val  == cases[i].val
             targ == cases[i].targ
         IN  IF val.vtag # "Integer" THEN "case"
             ELSE LET u == check_unify(ctrl.ty, val.ty, tystate)
                  IN  IF u = "overflow" THEN u
                      ELSE IF u # "ok" THEN "unify"
                      ELSE IF targ \notin DOMAIN targets THEN "index"
                      ELSE LET tstack == targets[targ]
                               r == IF ustack.some
                                    THEN case_shapes(ustack.items, tstack, tystate)
                                    ELSE LET c == check_unify_stack(vstack, tstack,
                                                                    tystate)
                                         IN  IF c = "overflow" THEN c
                                             ELSE IF c # "ok" THEN "stack" ELSE "ok"
                           IN  IF r # "ok" THEN r
                               ELSE switch_cases(cases, i + 1,
                                                 IF ustack.some THEN ustack
                                                 ELSE Some(tstack),
                                                 ctrl, vstack, targets, tystate)

\* Expr::Switch, validate.rs:786-839
expr_Switch(expr, vstack, exits, targets, tystate) ==
    IF vstack = <<>> THEN Panic(expr, "underflow")
    ELSE LET ctrl == pop(vstack)[2]
             vs   == pop(vstack)[1]
             c    == switch_ctrl(ctrl, tystate)
         IN  IF c # "ok" THEN Panic(expr, c)
             ELSE IF expr.kind = "Linear" THEN Panic(expr, "todo")
             ELSE LET r == switch_cases(expr.cases, 1, None, ctrl, vs, targets,
                                        tystate)
                  IN  IF r # "ok" THEN Panic(expr, r)
                      ELSE Ok(expr, vs, exits)

\* the overflow flag: a 1-bit unsigned Integer r-value, validate.rs:351-364
overflow_flag == RValue(IntTy(1, 0))

\* an arithmetic BinaryOp that pushes the overflow flag in every mode
binary_result_flagged(op, v, val1) ==
    IF op \in {"CmpInt", "Cmp"} THEN <<RValue(IntTy(32, 1))>>
    ELSE IF op \in {"CmpLt", "CmpLe", "CmpGt", "CmpGe", "CmpNe", "CmpEq"}
    THEN <<overflow_flag>>
    ELSE <<val1, overflow_flag>>

\* what BinaryOp pushes for a scalar val1, validate.rs:312-368
binary_result(op, v, val1) ==
    IF op \in {"CmpInt", "Cmp"} THEN <<RValue(IntTy(32, 1))>>
    ELSE IF op \in {"CmpLt", "CmpLe", "CmpGt", "CmpGe", "CmpNe", "CmpEq"}
    THEN <<overflow_flag>>
    ELSE IF v = "Checked" THEN <<val1, overflow_flag>>
    ELSE <<val1>>

\* Expr::BinaryOp, validate.rs:305-371: val1 is the top item, val2 the one
\* below it; the type of val2 is not looked at
expr_BinaryOp(expr, vstack, exits, tystate) ==
    IF Len(vstack) < 2 THEN Panic(expr, "underflow")
    ELSE LET val1 == vstack[Len(vstack)]
             val2 == vstack[Len(vstack) - 1]
         IN  IF val1.kind # "RValue" \/ val2.kind # "RValue" THEN Panic(expr, "kind")
             ELSE IF refiy_type(tystate, val1.ty).tag # "Scalar"
             THEN Panic(expr, "todo")
             ELSE Ok(expr,
                     SubSeq(vstack, 1, Len(vstack) - 2)
                         \o binary_result(expr.bop, expr.v, val1),
                     exits)

\* PreInc and PreDec that never push the overflow flag
pre_result_unflagged(v, lvalue) == <<lvalue>>

\* what PreInc and PreDec push for a scalar l-value, validate.rs:702-718
pre_result(v, lvalue) ==
    IF v = "Checked" THEN <<lvalue, overflow_flag>> ELSE <<lvalue>>

\* what PostInc and PostDec push for a scalar l-value, validate.rs:730-749
post_result(v, lvalue) ==
    IF v = "Checked" THEN <<RValue(lvalue.ty), overflow_flag>> ELSE <<lvalue>>

\* Expr::LValueOp, validate.rs:658-755
expr_LValueOp(expr, vstack, exits, tystate) ==
    LET n == Len(vstack) IN
    IF expr.lop = "Xchg"
    THEN IF n < 2 THEN Panic(expr, "underflow")
         ELSE IF vstack[n].kind # "LValue" \/ vstack[n - 1].kind # "LValue"
         THEN Panic(expr, "kind")
         ELSE LET r == check_unify(vstack[n].ty, vstack[n - 1].ty, tystate)
              IN  IF r # "ok" THEN Failed(expr, r)
                  ELSE Ok(expr, SubSeq(vstack, 1, n - 2), exits)
    ELSE IF expr.lop \in {"Cmpxchg", "Wcmpxchg"}
    THEN IF n < 3 THEN Panic(expr, "underflow")
         ELSE LET control == vstack[n]
                  swap == vstack[n - 1]
                  dest == vstack[n - 2]
              IN  IF dest.kind # "LValue" \/ swap.kind # "LValue"
                     \/ control.kind # "RValue"
                  THEN Panic(expr, "kind")
                  ELSE LET r1 == check_unify(dest.ty, control.ty, tystate)
                           r2 == check_unify(dest.ty, swap.ty, tystate)
                       IN  IF r1 # "ok" THEN Failed(expr, r1)
                           ELSE IF r2 # "ok" THEN Failed(expr, r2)
                           ELSE Ok(expr, Append(SubSeq(vstack, 1, n - 3), overflow_flag),
                                   exits)
    ELSE IF expr.lop \in {"PreDec", "PreInc", "PostDec", "PostInc"}
    THEN IF n < 1 THEN Panic(expr, "underflow")
         ELSE LET lvalue == vstack[n] IN
              IF lvalue.kind # "LValue" THEN Panic(expr, "kind")
              ELSE IF refiy_type(tystate, lvalue.ty).tag # "Scalar"
              THEN Panic(expr, "scalar")
              ELSE Ok(expr,
                      SubSeq(vstack, 1, n - 1)
                          \o (IF expr.lop \in {"PreDec", "PreInc"}
                              THEN pre_result(expr.v, lvalue)
                              ELSE post_result(expr.v, lvalue)),
                      exits)
    ELSE Panic(expr, "todo")

(***************************************************************************)
(* tycheck_function and tycheck_block, as operators.                       *)
(***************************************************************************)
\* the pre-scan of tycheck_block, validate.rs:856-864; decls are the Target
\* items of the block, in order
redeclared(decls) ==
    \E i, j \in 1..Len(decls) : i < j /\ decls[i].num = decls[j].num

prescan(decls) ==
    [n \in {decls[i].num : i \in 1..Len(decls)} |->
        (CHOOSE d \in {decls[i] : i \in 1..Len(decls)} : d.num = n).stack]

\* the Target arm without vstack.clear()
target_stack_kept(vstack, stack) == vstack \o stack

\* the live stack a Target leaves: vstack.clear(), vstack.extend(stack),
\* validate.rs:876-877
target_stack(vstack, stack) == stack

\* the exit stack of the root block, whatever block returns
block_result_root(exits) == exits[1].items

\* block_exits.pop().unwrap().unwrap_or_default(), validate.rs:882
block_result(exits) == exits[Len(exits)].items

\* the check of the root block's result, unifying what there is to unify
function_return_zip(fnty, ret, tystate) ==
    IF fnty.ret = Void
    THEN IF Len(ret) = 0 THEN "ok" ELSE "return"
    ELSE IF Len(ret) = 0 THEN "ok"
         ELSE LET r == check_unify(ret[1].ty, fnty.ret, tystate)
              IN  IF r = "panic" THEN "unify" ELSE r

\* the check of the root block's result, validate.rs:70-75
function_return(fnty, ret, tystate) ==
    IF fnty.ret = Void
    THEN IF Len(ret) = 0 THEN "ok" ELSE "return"
    ELSE IF Len(ret) # 1 THEN "return"
         ELSE LET r == check_unify(ret[1].ty, fnty.ret, tystate)
              IN  IF r = "panic" THEN "unify" ELSE r

\* local_tys of tycheck_function, validate.rs:63-68
function_locals(member) == member.ty.params \o member.locals

(***************************************************************************)
(* The state of a run of tycheck on a File.                                *)
(***************************************************************************)
VARIABLES
    file,         \* the File: root.members, path -> member
    typestate,    \* TypeState {tys, aggregate}
    pc,           \* pass1, pass2, block (replaying a body), done, panic
    pending1,     \* the members the loop of pass one has yet to visit, in order
    pending2,     \* the members the loop of pass two has yet to visit, in order
    cur,          \* the function whose body is replayed
    checked,      \* the functions tycheck_function was called on
    local_tys,    \* locals of tycheck_expr
    block_exits,  \* Vec<Option<Vec<StackItem>>>
    vstack,       \* the live stack of the block replayed
    targets,      \* its label table
    rest,         \* its Target items not yet reached, in order
    diverged,     \* its diverged flag
    callers,      \* the enclosing blocks, suspended in Expr::Block
    last,         \* the item replayed last
    err,          \* the assertion that failed
    steps,        \* instructions replayed in this body
    balanced,     \* every Target of this body was reached with as many live
                  \* items as it declares
    args,         \* the arguments and results of a call of check_unify alone
    vec           \* a Vec<T> the operations of vec.rs are called on

vars == <<file, typestate, pc, pending1, pending2, cur, checked, local_tys,
          block_exits, vstack, targets, rest, diverged, callers, last, err,
          steps, balanced, args, vec>>

NoTargets == [n \in {} |-> <<>>]
NoItem == [op |-> "none"]
NoArgs == [phase |-> "none"]
NoVec == [phase |-> "none"]
NoTypes == [tys |-> [p \in {} |-> Null], aggregate |-> [p \in {} |-> Null]]

I32 == IntTy(32, 1)
I8 == IntTy(8, 1)

Sig2 == FnType(I32, <<I32, I32>>, "C", FALSE)
Sig1 == FnType(I32, <<I32>>, "C", FALSE)
Sig0 == FnType(I32, <<>>, "C", FALSE)
\* a variadic function of one declared parameter
SigV == FnType(I32, <<I32>>, "C", TRUE)
\* a signature that names a type no member of the File defines
SigFoo == FnType(Void, <<Named("Foo")>>, "C", FALSE)

StructS == [annotations |-> <<>>, kind |-> "Struct", fields |-> <<<<"a", I32>>>>]

Function(ty, body, locals) ==
    [decl |-> "Function", ty |-> ty, body |-> body, locals |-> locals]
Static(ty) == [decl |-> "Static", ty |-> ty]
AggregateDefinition(defn) == [decl |-> "AggregateDefinition", defn |-> defn]
OpaqueAggregate == [decl |-> "OpaqueAggregate"]
EmptyMember == [decl |-> "Empty"]
\* MemberDeclaration::Scope: a nested scope and its members
Scope(members) == [decl |-> "Scope", members |-> members]

\* the Files the model runs tycheck on
Files ==
    { [f |-> Function(Sig2, TRUE, <<>>)],
      [g |-> Function(SigFoo, TRUE, <<>>), h |-> Function(SigV, FALSE, <<>>)],
      [s |-> Static(I32), S |-> AggregateDefinition(StructS), O |-> OpaqueAggregate,
       e |-> EmptyMember] }

U8 == IntTy(8, 0)
\* a function of one int32 parameter and one uint8 local
SigK == FnType(I32, <<I32>>, "C", FALSE)
FunctionK == Function(SigK, TRUE, <<U8>>)

\* Files with a static next to a function, and with a function in a nested
\* scope
FilesOps ==
    { [s |-> Static(I32), k |-> FunctionK],
      [m |-> Scope([q |-> Function(Sig0, TRUE, <<>>)]), k |-> FunctionK] }

\* the orders in which a HashMap with the keys S may be iterated
Orders(S) ==
    {o \in [1..Cardinality(S) -> S] : \A i, j \in DOMAIN o : o[i] = o[j] => i = j}

(***************************************************************************)
(* The instructions and labels the replayed bodies are made of.            *)
(***************************************************************************)
GlobalAddress(ty, item) == [vtag |-> "GlobalAddress", ty |-> ty, item |-> item]

ConstValues ==
    { IntegerValue(I32, 2), IntegerValue(I8, 2), GlobalAddress(Null, "f"),
      GlobalAddress(Null, "h") }

\* call-site signatures
Sigs ==
    { Sig2, Sig1, Sig0, FnType(I32, <<I32, I32, I32>>, "C", FALSE),
      FnType(I32, <<I32, I32>>, "C", TRUE), FnType(I8, <<I32, I32>>, "C", FALSE) }

Target(num, stack) == [num |-> num, stack |-> stack]

\* the Target items of a block, in order
TargetDecls ==
    { <<>>,
      <<Target(0, <<RValue(I32)>>), Target(1, <<>>)>>,
      <<Target(0, <<>>), Target(0, <<>>)>> }

Insert(map, k, v) == [x \in DOMAIN map \cup {k} |-> IF x = k THEN v ELSE map[x]]

(***************************************************************************)
(* tycheck: pass one, validate.rs:891-910. Both loops iterate the same,    *)
(* unchanged HashMap: in the same order, which is any order.               *)
(***************************************************************************)
Init ==
    /\ file \in Files
    /\ typestate = NoTypes
    /\ pc = "pass1"
    /\ pending1 \in Orders(DOMAIN file)
    /\ pending2 = pending1
    /\ cur = "none"
    /\ checked = {}
    /\ local_tys = <<>>
    /\ block_exits = <<>>
    /\ vstack = <<>>
    /\ targets = NoTargets
    /\ rest = <<>>
    /\ diverged = FALSE
    /\ callers = <<>>
    /\ last = NoItem
    /\ err = "none"
    /\ steps = 0
    /\ balanced = TRUE
    /\ args = NoArgs
    /\ vec = NoVec

body_vars == <<local_tys, block_exits, vstack, targets, rest, diverged, callers,
               last, err, steps, balanced>>

PassOne(path, decl, ts) ==
    /\ pc = "pass1"
    /\ pending1 # <<>>
    /\ path = Head(pending1)
    /\ file[path].decl = decl
    /\ typestate' = ts
    /\ pending1' = Tail(pending1)
    /\ UNCHANGED <<file, pc, pending2, cur, checked, body_vars, args, vec>>

PassOneFunction ==
    \E path \in DOMAIN file :
        PassOne(path, "Function",
                [typestate EXCEPT !.tys = Insert(@, path, file[path].ty)])

PassOneStatic ==
    \E path \in DOMAIN file :
        PassOne(path, "Static",
                [typestate EXCEPT !.tys = Insert(@, path, file[path].ty)])

PassOneAggregate ==
    \E path \in DOMAIN file :
        PassOne(path, "AggregateDefinition",
                [typestate EXCEPT
                    !.aggregate = Insert(@, path, Some(file[path].defn))])

PassOneOpaque ==
    \E path \in DOMAIN file :
        PassOne(path, "OpaqueAggregate",
                [typestate EXCEPT !.aggregate = Insert(@, path, None)])

PassOneOther ==
    \E path \in DOMAIN file :
        /\ file[path].decl \notin
              {"Function", "Static", "AggregateDefinition", "OpaqueAggregate"}
        /\ PassOne(path, file[path].decl, typestate)

\* the second loop starts although the first one has members left to visit
PassTwoBegin_early ==
    /\ pc = "pass1"
    /\ pc' = "pass2"
    /\ UNCHANGED <<file, typestate, pending1, pending2, cur, checked, body_vars,
                   args, vec>>

\* the first loop is over: the second one starts
PassTwoBegin ==
    /\ pc = "pass1"
    /\ pending1 = <<>>
    /\ pc' = "pass2"
    /\ UNCHANGED <<file, typestate, pending1, pending2, cur, checked, body_vars,
                   args, vec>>

(***************************************************************************)
(* A panic ends the run.                                                   *)
(***************************************************************************)
Abort(item, why) ==
    /\ pc' = "panic"
    /\ err' = why
    /\ last' = item
    /\ local_tys' = <<>>
    /\ block_exits' = <<>>
    /\ vstack' = <<>>
    /\ targets' = NoTargets
    /\ rest' = <<>>
    /\ diverged' = FALSE
    /\ callers' = <<>>
    /\ steps' = 0
    /\ balanced' = TRUE
    /\ UNCHANGED <<file, typestate, pending1, args, vec>>

(***************************************************************************)
(* tycheck: pass two, validate.rs:912-924, and tycheck_function.           *)
(***************************************************************************)
\* tycheck_block entered with the labels of the enclosing block next to its
\* own
EnterBlock_inherit(item, decls, outer) ==
    /\ block_exits' = Append(block_exits, None)
    /\ vstack' = <<>>
    /\ targets' = [n \in DOMAIN targets \cup DOMAIN prescan(decls) |->
                      IF n \in DOMAIN prescan(decls) THEN prescan(decls)[n]
                      ELSE targets[n]]
    /\ rest' = decls
    /\ diverged' = FALSE
    /\ callers' = outer
    /\ last' = item
    /\ err' = "none"
    /\ pc' = "block"

\* tycheck_block is entered and its labels are collected, validate.rs:850-864
EnterBlock(item, decls, outer) ==
    /\ block_exits' = Append(block_exits, None)
    /\ vstack' = <<>>
    /\ targets' = prescan(decls)
    /\ rest' = decls
    /\ diverged' = FALSE
    /\ callers' = outer
    /\ last' = item
    /\ err' = "none"
    /\ pc' = "block"

\* the loop of pass two visits its next member
PassTwo(path) ==
    /\ pc = "pass2"
    /\ pending2 # <<>>
    /\ path = Head(pending2)
    /\ pending2' = Tail(pending2)

PassTwoFunction ==
    \E path \in DOMAIN file, decls \in TargetDecls :
        /\ PassTwo(path)
        /\ file[path].decl = "Function"
        /\ file[path].body
        /\ checked' = checked \cup {path}
        /\ cur' = path
        /\ IF redeclared(decls)
           THEN Abort([op |-> "Function", path |-> path], "redeclared")
           ELSE /\ EnterBlock([op |-> "Function", path |-> path], decls, <<>>)
                /\ local_tys' = function_locals(file[path])
                /\ steps' = 0
                /\ balanced' = TRUE
                /\ UNCHANGED <<file, typestate, pending1, args, vec>>

PassTwoStatic ==
    \E path \in DOMAIN file :
        /\ PassTwo(path)
        /\ file[path].decl = "Static"
        /\ UNCHANGED <<cur, checked>>
        /\ Abort([op |-> "Static", path |-> path], "todo")

PassTwoSkip ==
    \E path \in DOMAIN file :
        /\ PassTwo(path)
        /\ file[path].decl # "Static"
        /\ ~(file[path].decl = "Function" /\ file[path].body)
        /\ UNCHANGED <<file, typestate, pc, pending1, cur, checked, body_vars, args, vec>>

Done ==
    /\ pc = "pass2"
    /\ pending2 = <<>>
    /\ pc' = "done"
    /\ UNCHANGED <<file, typestate, pending1, pending2, cur, checked, body_vars,
                   args, vec>>

\* an unconditional Branch and an ExitBlock reported as leaving the block
diverges_jump(expr) ==
    \/ expr.op = "ExitBlock"
    \/ expr.op = "Branch" /\ expr.cond = "Always"

\* the value tycheck_expr returns, validate.rs:841: false after every arm
diverges(expr) == FALSE

(***************************************************************************)
(* tycheck_block: the replay of the items, validate.rs:866-880.            *)
(***************************************************************************)
\* BlockItem::Expr, validate.rs:868-870: r is what the arm of tycheck_expr
\* for the instruction returns
Step(r) ==
    /\ steps < MaxItems
    /\     IF r.res = "ok"
           THEN /\ Len(r.vstack) <= MaxStack
                /\ vstack' = r.vstack
                /\ block_exits' = r.exits
                /\ last' = r.expr
                /\ diverged' = diverges(r.expr)
                /\ steps' = steps + 1
                /\ UNCHANGED <<file, typestate, pc, pending1, local_tys, targets,
                               rest, callers, err, balanced, args, vec>>
           ELSE Abort(r.expr, r.err)
    /\ UNCHANGED <<pending2, cur, checked>>

ItemConst ==
    \E v \in ConstValues :
        /\ pc = "block"
        /\ Step(expr_Const([op |-> "Const", v |-> v], vstack, block_exits, targets,
                           typestate))

ItemExitBlock ==
    \E blk \in 0..(MaxNest + 1), values \in 0..2 :
        /\ pc = "block"
        /\ Step(expr_ExitBlock([op |-> "ExitBlock", blk |-> blk, values |-> values],
                               vstack, block_exits, typestate))

ItemCallFunction ==
    \E fnty \in Sigs :
        /\ pc = "block"
        /\ Step(expr_CallFunction([op |-> "CallFunction", fnty |-> fnty], vstack,
                                  block_exits, typestate))

ItemBranch ==
    \E cond \in {"Always", "Equal"}, target \in 0..1 :
        /\ pc = "block"
        /\ Step(expr_Branch([op |-> "Branch", cond |-> cond, target |-> target],
                            vstack, block_exits, targets, typestate))

ItemLocal ==
    \E n \in 0..1 :
        /\ pc = "block"
        /\ Step(expr_Local([op |-> "Local", n |-> n], vstack, block_exits, local_tys))

ItemPop ==
    \E n \in 1..2 :
        /\ pc = "block"
        /\ Step(expr_Pop([op |-> "Pop", n |-> n], vstack, block_exits))

ItemAssign ==
    /\ pc = "block"
    /\ Step(expr_Assign([op |-> "Assign"], vstack, block_exits, typestate))

ItemAsRValue ==
    /\ pc = "block"
    /\ Step(expr_AsRValue([op |-> "AsRValue"], vstack, block_exits))

ItemIndirect ==
    /\ pc = "block"
    /\ Step(expr_Indirect([op |-> "Indirect"], vstack, block_exits))

ItemAddrOf ==
    /\ pc = "block"
    /\ Step(expr_AddrOf([op |-> "AddrOf"], vstack, block_exits))

BinaryOps == {"Add", "CmpInt", "CmpEq"}
LValueOps == {"PreInc", "PreDec", "PostInc", "Xchg", "Cmpxchg", "Mul"}
OverflowBehaviours == {"Unchecked", "Checked"}

ItemBinaryOp ==
    \E bop \in BinaryOps, v \in OverflowBehaviours :
        /\ pc = "block"
        /\ Step(expr_BinaryOp([op |-> "BinaryOp", bop |-> bop, v |-> v], vstack,
                              block_exits, typestate))

ItemLValueOp ==
    \E lop \in LValueOps, v \in OverflowBehaviours :
        /\ pc = "block"
        /\ Step(expr_LValueOp([op |-> "LValueOp", lop |-> lop, v |-> v], vstack,
                              block_exits, typestate))

\* Expr::Null | Expr::Sequence | Expr::Fence, validate.rs:783-785
ItemNull ==
    \E op \in {"Null", "Fence"} :
        /\ pc = "block"
        /\ Step(Ok([op |-> op], vstack, block_exits))

\* Expr::Tailcall and Expr::Convert are todo!(), validate.rs:431 and 521
ItemTodo ==
    \E op \in {"Tailcall", "Convert"} :
        /\ pc = "block"
        /\ Step(Panic([op |-> op], "todo"))

\* Expr::Block without the assertion of validate.rs:604
ItemBlock_unasserted ==
    \E n \in 0..(MaxNest + 1), decls \in TargetDecls :
        LET item == [op |-> "Block", n |-> n] IN
        /\ pc = "block"
        /\ steps < MaxItems
        /\ Len(callers) < MaxNest
        /\ IF redeclared(decls) THEN Abort(item, "redeclared")
           ELSE /\ EnterBlock(item, decls,
                              Append(callers, [vstack |-> vstack, targets |-> targets,
                                               rest |-> rest]))
                /\ steps' = steps + 1
                /\ UNCHANGED <<file, typestate, pending1, local_tys, balanced, args,
                               vec>>
        /\ UNCHANGED <<pending2, cur, checked>>

\* Expr::Block, validate.rs:603-605: the nested block is entered
ItemBlock ==
    \E n \in 0..(MaxNest + 1), decls \in TargetDecls :
        LET item == [op |-> "Block", n |-> n] IN
        /\ pc = "block"
        /\ steps < MaxItems
        /\ Len(callers) < MaxNest
        /\ IF n # Len(block_exits) THEN Abort(item, "ordinal")
           ELSE IF redeclared(decls) THEN Abort(item, "redeclared")
           ELSE /\ EnterBlock(item, decls,
                              Append(callers, [vstack |-> vstack, targets |-> targets,
                                               rest |-> rest]))
                /\ steps' = steps + 1
                /\ UNCHANGED <<file, typestate, pending1, local_tys, balanced, args, vec>>
        /\ UNCHANGED <<pending2, cur, checked>>

\* BlockItem::Target, validate.rs:871-878
ItemTarget ==
    /\ pc = "block"
    /\ rest # <<>>
    /\ LET t == Head(rest)
           item == [op |-> "Target", num |-> t.num, stack |-> t.stack]
           r == IF diverged THEN "ok" ELSE check_unify_stack(vstack, t.stack, typestate)
       IN  IF r # "ok" THEN Abort(item, IF r = "overflow" THEN r ELSE "stack")
           ELSE /\ diverged' = FALSE
                /\ vstack' = target_stack(vstack, t.stack)
                /\ rest' = Tail(rest)
                /\ last' = item
                /\ balanced' = (balanced /\ (diverged \/ Len(vstack) = Len(t.stack)))
                /\ UNCHANGED <<file, typestate, pc, pending1, local_tys, block_exits,
                               targets, callers, err, steps, args, vec>>
    /\ UNCHANGED <<pending2, cur, checked>>

\* the nested block returns, validate.rs:882 and 605-607
BlockEnd ==
    /\ pc = "block"
    /\ rest = <<>>
    /\ callers # <<>>
    /\ LET outer == callers[Len(callers)]
           res == block_result(block_exits)
       IN  /\ Len(outer.vstack) + Len(res) <= MaxStack
           /\ vstack' = outer.vstack \o res
           /\ targets' = outer.targets
           /\ rest' = outer.rest
           /\ diverged' = FALSE
           /\ callers' = SubSeq(callers, 1, Len(callers) - 1)
           /\ block_exits' = SubSeq(block_exits, 1, Len(block_exits) - 1)
           /\ last' = [op |-> "EndBlock", res |-> res]
    /\ UNCHANGED <<file, typestate, pc, pending1, pending2, cur, checked, local_tys,
                   err, steps, balanced, args, vec>>

\* the root block returns to tycheck_function, validate.rs:69-75
FunctionEnd ==
    /\ pc = "block"
    /\ rest = <<>>
    /\ callers = <<>>
    /\ LET ret == block_result(block_exits)
           item == [op |-> "Return", ret |-> ret]
           r == function_return(file[cur].ty, ret, typestate)
       IN  IF r # "ok" THEN Abort(item, r)
           ELSE /\ pc' = "pass2"
                /\ last' = item
                /\ block_exits' = <<>>
                /\ vstack' = <<>>
                /\ targets' = NoTargets
                /\ diverged' = FALSE
                /\ local_tys' = <<>>
                /\ steps' = 0
                /\ UNCHANGED <<file, typestate, pending1, rest, callers, err, balanced,
                               args, vec>>
    /\ UNCHANGED <<pending2, cur, checked>>

Next ==
    \/ PassOneFunction \/ PassOneStatic \/ PassOneAggregate \/ PassOneOpaque
    \/ PassOneOther \/ PassTwoBegin
    \/ PassTwoFunction \/ PassTwoStatic \/ PassTwoSkip \/ Done
    \/ ItemConst \/ ItemExitBlock \/ ItemCallFunction \/ ItemBranch \/ ItemLocal
    \/ ItemPop \/ ItemAssign \/ ItemAsRValue \/ ItemIndirect \/ ItemAddrOf
    \/ ItemNull \/ ItemTodo \/ ItemBlock \/ ItemTarget \/ BlockEnd \/ FunctionEnd

Spec == Init /\ [][Next]_vars

(***************************************************************************)
(* tycheck on Files with statics, nested scopes and locals, the bodies     *)
(* made of arithmetic instructions.                                        *)
(***************************************************************************)
InitOps ==
    /\ file \in FilesOps
    /\ typestate = NoTypes
    /\ pc = "pass1"
    /\ pending1 \in Orders(DOMAIN file)
    /\ pending2 = pending1
    /\ cur = "none"
    /\ checked = {}
    /\ local_tys = <<>>
    /\ block_exits = <<>>
    /\ vstack = <<>>
    /\ targets = NoTargets
    /\ rest = <<>>
    /\ diverged = FALSE
    /\ callers = <<>>
    /\ last = NoItem
    /\ err = "none"
    /\ steps = 0
    /\ balanced = TRUE
    /\ args = NoArgs
    /\ vec = NoVec

NextOps ==
    \/ PassOneFunction \/ PassOneStatic \/ PassOneOther \/ PassTwoBegin
    \/ PassTwoFunction \/ PassTwoStatic \/ PassTwoSkip \/ Done
    \/ ItemConst \/ ItemLocal \/ ItemBinaryOp \/ ItemLValueOp \/ ItemAsRValue
    \/ ItemExitBlock \/ ItemTarget \/ FunctionEnd

SpecOps == InitOps /\ [][NextOps]_vars

(***************************************************************************)
(* The replay of a root block from a live stack on, with a table of        *)
(* labels, through the instructions of control flow and of the stack:      *)
(* label addresses, BranchIndirect, Pivot, Switch, Derive.                 *)
(***************************************************************************)
LabelAddress(n) == [vtag |-> "LabelAddress", n |-> n]

\* the items of the live stack the replay starts from
FlowItems ==
    { RValue(I32), LValue(I32), RValue(I8), RValue(DefaultPointer(Void)),
      RValue(DefaultPointer(Null)) }

\* the labels of the block: number -> declared shape
FlowTargets ==
    [n \in 0..3 |-> CASE n = 0 -> <<RValue(I32)>>
                      [] n = 1 -> <<>>
                      [] n = 2 -> <<LValue(I32)>>
                      [] n = 3 -> <<RValue(Null)>>]

Case(val, targ) == [val |-> val, targ |-> targ]

\* the cases of the Hash switches replayed: none, one, or two with values of
\* type int32
SwitchCases ==
    {<<>>}
    \cup { <<Case(v, t)>> :
              v \in {IntegerValue(I32, 2), IntegerValue(I8, 2),
                     GlobalAddress(Null, "f")},
              t \in 0..4 }
    \cup { <<Case(IntegerValue(I32, 2), t1), Case(IntegerValue(I32, 3), t2)>> :
              t1 \in 0..4, t2 \in 0..4 }

\* the pointer annotations of the Derive instructions replayed
DerivePtys == {Pointer("Unique", "Dereference", 1, Null), DefaultPointer(I32)}

\* the replay at a point where the live stack holds items that earlier
\* instructions of the block left (Const, Local, a Target after a branch)
InitFlow ==
    /\ file = [f |-> Function(Sig2, TRUE, <<>>)]
    /\ typestate = [tys |-> [f |-> Sig2], aggregate |-> [p \in {} |-> Null]]
    /\ pc = "block"
    /\ pending1 = <<>>
    /\ pending2 = <<>>
    /\ cur = "f"
    /\ checked = {"f"}
    /\ local_tys = function_locals(file["f"])
    /\ block_exits = <<None>>
    /\ vstack \in UNION {[1..k -> FlowItems] : k \in 0..MaxStack}
    /\ targets = FlowTargets
    /\ rest = <<>>
    /\ diverged = FALSE
    /\ callers = <<>>
    /\ last = NoItem
    /\ err = "none"
    /\ steps = 0
    /\ balanced = TRUE
    /\ args = NoArgs
    /\ vec = NoVec

\* Expr::Const(Value::LabelAddress(n))
ItemLabelAddress ==
    \E n \in 0..1 :
        /\ pc = "block"
        /\ Step(expr_Const([op |-> "Const", v |-> LabelAddress(n)], vstack,
                           block_exits, targets, typestate))

ItemBranchIndirect ==
    /\ pc = "block"
    /\ Step(expr_BranchIndirect([op |-> "BranchIndirect"], vstack, block_exits,
                                typestate))

ItemPivot ==
    \E n \in 0..2, m \in 0..2 :
        /\ pc = "block"
        /\ Step(expr_Pivot([op |-> "Pivot", n |-> n, m |-> m], vstack, block_exits))

ItemSwitch ==
    \E kind \in {"Hash", "Linear"}, cases \in SwitchCases :
        /\ pc = "block"
        /\ kind = "Linear" => cases = <<>>
        /\ Step(expr_Switch([op |-> "Switch", kind |-> kind, cases |-> cases],
                            vstack, block_exits, targets, typestate))

\* Expr::Derive(pty, expr), the inner expression a Const
ItemDerive ==
    \E pty \in DerivePtys, v \in ConstValues :
        LET inner == [op |-> "Const", v |-> v] IN
        /\ pc = "block"
        /\ Step(expr_Derive([op |-> "Derive", pty |-> pty, inner |-> inner],
                            expr_Const(inner, vstack, block_exits, targets,
                                       typestate),
                            typestate))

NextFlow ==
    \/ ItemLabelAddress \/ ItemBranchIndirect \/ ItemPivot \/ ItemSwitch
    \/ ItemDerive

SpecFlow == InitFlow /\ [][NextFlow]_vars

(***************************************************************************)
(* The same replay with nested blocks that declare labels of their own,    *)
(* through the instructions that name a label: Branch, Switch and label    *)
(* addresses, and the constants that give them their operands.             *)
(***************************************************************************)
InitLabels ==
    /\ InitFlow
    /\ Len(vstack) <= 1
    /\ \A i \in DOMAIN vstack : vstack[i] \in {RValue(I32), RValue(I8)}

NextLabels ==
    \/ ItemConst \/ ItemLabelAddress \/ ItemBranch \/ ItemSwitch \/ ItemBlock
    \/ ItemTarget \/ BlockEnd

SpecLabels == InitLabels /\ [][NextLabels]_vars

(***************************************************************************)
(* check_unify alone, on the types and tables below.                       *)
(***************************************************************************)
U32 == IntTy(32, 0)

ScalarTypes ==
    { I32, I8, U32, Scalar(32, 0, "Integer", 1, 127), Scalar(32, 4, "Integer", 1, 0),
      Scalar(32, 0, "Float", 0, 0), Scalar(32, 0, "Float", 1, 0),
      Scalar(32, 0, "Fixed", 16, 0), Scalar(32, 0, "Fixed", 8, 0),
      Scalar(8, 0, "Char", 0, 0), Scalar(80, 0, "LongFloat", 0, 0),
      Scalar(0, 0, "Empty", 0, 0) }

NamedTypes == { Named(p) : p \in {"f", "s", "w", "c", "S", "Foo"} }

PointerTypes ==
    { DefaultPointer(t) : t \in {Void, I32, I8, Null, Named("s")} }
    \cup { Pointer("Unique", "Dereference", 1, I32), DefaultPointer(DefaultPointer(I32)),
           DefaultPointer(Sig2) }

FnTypes ==
    { Sig2, Sig1, FnType(Void, <<>>, "C", FALSE), FnType(I32, <<I32, I32>>, "C", TRUE),
      FnType(I32, <<I32, I32>>, "Fastcall", FALSE), FnType(I32, <<I8, I32>>, "C", FALSE),
      FnType(I8, <<I32, I32>>, "C", FALSE) }

ProductTypes == { Product(tys) : tys \in {<<>>, <<I32>>, <<I32, I8>>, <<I8>>} }

AggregateTypes ==
    { Aggregate("Struct", <<>>, <<<<"a", I32>>>>),
      Aggregate("Struct", <<>>, <<<<"a", I32>>, <<"b", I8>>>>),
      Aggregate("Struct", <<>>, <<<<"b", I32>>>>),
      Aggregate("Union", <<>>, <<<<"a", I32>>>>),
      Aggregate("Struct", <<"packed">>, <<<<"a", I32>>>>) }

ArrayTypes ==
    { Array(I32, IntegerValue(U32, 4)), Array(I32, IntegerValue(U32, 5)),
      Array(I8, IntegerValue(U32, 4)), Array(I32, IntegerValue(I32, 4)),
      Array(I32, UninitValue(U32)) }

WrapperTypes ==
    { TaggedType(1, I32), TaggedType(2, I32), TaggedType(1, Void),
      TaggedType(1, Named("s")), Aligned(IntegerValue(U32, 8), I32),
      TaggedType(1, TaggedType(1, I32)), Aligned(IntegerValue(U32, 8), TaggedType(1, I32)) }

Types ==
    {Null, Void} \cup ScalarTypes \cup NamedTypes \cup PointerTypes \cup FnTypes
    \cup ProductTypes \cup AggregateTypes \cup ArrayTypes \cup WrapperTypes

\* tables as pass one leaves them: functions f and c (whose parameter names c
\* itself), statics s and w, the aggregate S
Tables ==
    { NoTypes,
      [tys |-> [f |-> Sig2, c |-> FnType(Void, <<Named("c")>>, "C", FALSE),
                s |-> I32, w |-> TaggedType(1, I32)],
       aggregate |-> [S |-> Some(StructS)]],
      [tys |-> [f |-> Sig1, s |-> I8], aggregate |-> [S |-> None]] }

NoFile == [p \in {} |-> EmptyMember]

InitUnify ==
    /\ args \in {[phase |-> "call", ty1 |-> a, ty2 |-> b, tystate |-> t,
                  res |-> "none", swapped |-> "none"] :
                    a \in Types, b \in Types, t \in Tables}
    /\ file = NoFile
    /\ typestate = NoTypes
    /\ pc = "unify"
    /\ pending1 = <<>>
    /\ pending2 = <<>>
    /\ cur = "none"
    /\ checked = {}
    /\ local_tys = <<>>
    /\ block_exits = <<>>
    /\ vstack = <<>>
    /\ targets = NoTargets
    /\ rest = <<>>
    /\ diverged = FALSE
    /\ callers = <<>>
    /\ last = NoItem
    /\ err = "none"
    /\ steps = 0
    /\ balanced = TRUE
    /\ vec = NoVec

tycheck_vars ==
    <<file, typestate, pc, pending1, pending2, cur, checked, local_tys, block_exits,
      vstack, targets, rest, diverged, callers, last, err, steps, balanced>>

\* check_unify(ty1, ty2)
Unify ==
    /\ args.phase = "call"
    /\ args' = [args EXCEPT !.phase = "once",
                            !.res = check_unify(args.ty1, args.ty2, args.tystate)]
    /\ UNCHANGED <<tycheck_vars, vec>>

\* check_unify(ty2, ty1), with the same table
UnifySwapped ==
    /\ args.phase = "once"
    /\ args' = [args EXCEPT !.phase = "both",
                            !.swapped = check_unify(args.ty2, args.ty1, args.tystate)]
    /\ UNCHANGED <<tycheck_vars, vec>>

NextUnify == Unify \/ UnifySwapped

SpecUnify == InitUnify /\ [][NextUnify]_vars

(***************************************************************************)
(* check_unify_stack alone, on the stacks and the shapes made of a few     *)
(* items, and once more on the top window of the stack alone.              *)
(***************************************************************************)
\* the length of a declared stack shape
MaxShape == 2

StackItems == {RValue(I32), LValue(I32), RValue(I8), RValue(Null)}

StacksUpTo(n) == UNION {[1..k -> StackItems] : k \in 0..n}

InitStack ==
    /\ args \in {[phase |-> "call", stack |-> st, target |-> tg, res |-> "none",
                  window |-> "none"] :
                      st \in StacksUpTo(MaxStack), tg \in StacksUpTo(MaxShape)}
    /\ file = NoFile
    /\ typestate = NoTypes
    /\ pc = "stack"
    /\ pending1 = <<>>
    /\ pending2 = <<>>
    /\ cur = "none"
    /\ checked = {}
    /\ local_tys = <<>>
    /\ block_exits = <<>>
    /\ vstack = <<>>
    /\ targets = NoTargets
    /\ rest = <<>>
    /\ diverged = FALSE
    /\ callers = <<>>
    /\ last = NoItem
    /\ err = "none"
    /\ steps = 0
    /\ balanced = TRUE
    /\ vec = NoVec

\* check_unify_stack(&stack, &target, tys): both are borrowed, neither changes
UnifyStack ==
    /\ pc = "stack"
    /\ args.phase = "call"
    /\ args' = [args EXCEPT !.phase = "once",
                            !.res = check_unify_stack(args.stack, args.target,
                                                      typestate)]
    /\ UNCHANGED <<tycheck_vars, vec>>

\* check_unify_stack on the top target.len() items of the stack alone
UnifyWindow ==
    /\ pc = "stack"
    /\ args.phase = "once"
    /\ Len(args.stack) >= Len(args.target)
    /\ args' = [args EXCEPT !.phase = "both",
                            !.window =
                                check_unify_stack(
                                    SubSeq(args.stack,
                                           Len(args.stack) - Len(args.target) + 1,
                                           Len(args.stack)),
                                    args.target, typestate)]
    /\ UNCHANGED <<tycheck_vars, vec>>

NextStack == UnifyStack \/ UnifyWindow

SpecStack == InitStack /\ [][NextStack]_vars

(***************************************************************************)
(* Vec<T, A> (xlang_abi/src/vec.rs) with its capacity and its allocation.  *)
(* usize is UsizeBits wide; an Option<usize> is a set of at most one       *)
(* number, and unwrap() of the empty one panics.                           *)
(***************************************************************************)
\* the width of usize
UsizeBits == 4
\* the elements a Vec is made to hold
MaxLen == 3

usize_MAX == 2 ^ UsizeBits - 1

unwrap(opt) == CHOOSE x \in opt : TRUE

\* usize::checked_next_power_of_two: the smallest power of two >= n (1 for 0)
checked_next_power_of_two(n) ==
    LET powers == {p \in {2 ^ k : k \in 0..(UsizeBits - 1)} : p >= n}
    IN  IF powers = {} THEN {}
        ELSE {CHOOSE p \in powers : \A q \in powers : p <= q}

checked_mul(a, b) == IF a * b > usize_MAX THEN {} ELSE {a * b}
checked_add(a, b) == IF a + b > usize_MAX THEN {} ELSE {a + b}

\* a Vec: ptr is dangling or points to an allocation of bytes bytes; items
\* are the len elements written; size_of is size_of::<T>()
Vec(ptr, bytes, cap, items, alloc, size_of) ==
    [phase |-> "live", ptr |-> ptr, bytes |-> bytes, cap |-> cap,
     len |-> Len(items), items |-> items, alloc |-> alloc, size_of |-> size_of]

VecPanic == [phase |-> "panic"]

\* Vec::new_in, vec.rs:81-88
new_in(alloc, size_of) == Vec("dangling", 0, 0, <<>>, alloc, size_of)

\* Vec::with_capacity_in, vec.rs:95-121
with_capacity_in(cap, alloc, size_of) ==
    LET ncap == checked_next_power_of_two(cap) IN
    IF ncap = {} THEN VecPanic
    ELSE LET raw_cap == checked_mul(unwrap(ncap), size_of) IN
         IF raw_cap = {} THEN VecPanic
         ELSE IF unwrap(raw_cap) = 0
         THEN Vec("dangling", 0, unwrap(ncap), <<>>, alloc, size_of)
         ELSE Vec("allocated", unwrap(raw_cap), unwrap(ncap), <<>>, alloc, size_of)

\* Vec::with_capacity, vec.rs:37-39
with_capacity(cap, size_of) == with_capacity_in(cap, "XLangAlloc", size_of)

\* Vec::reallocate, vec.rs:167-199
reallocate(v, ncap) ==
    IF ncap > v.cap
    THEN LET raw_cap == checked_mul(ncap, v.size_of) IN
         IF raw_cap = {} THEN VecPanic
         ELSE IF unwrap(raw_cap) = 0 THEN v
         ELSE [v EXCEPT !.cap = ncap, !.ptr = "allocated", !.bytes = unwrap(raw_cap)]
    ELSE v

\* the write of push, vec.rs:225-229
push_write(v, val) ==
    IF v.phase = "panic" THEN v
    ELSE [v EXCEPT !.items = Append(@, val), !.len = @ + 1]

\* Vec::push, vec.rs:219-230
push(v, val) ==
    IF v.len = v.cap
    THEN LET ncap == checked_next_power_of_two(v.cap + 1) IN
         IF ncap = {} THEN VecPanic
         ELSE push_write(reallocate(v, unwrap(ncap)), val)
    ELSE push_write(v, val)

\* Vec::pop, vec.rs:233-241: <<the Vec, the Option returned>>
pop_back(v) ==
    IF v.len = 0 THEN <<v, None>>
    ELSE <<[v EXCEPT !.len = @ - 1, !.items = pop(v.items)[1]],
          Some(pop(v.items)[2])>>

\* Vec::reserve, vec.rs:247-257
reserve(v, additional) ==
    LET sum == checked_add(v.len, additional) IN
    IF sum = {} THEN VecPanic
    ELSE LET ncap == checked_next_power_of_two(unwrap(sum)) IN
         IF ncap = {} THEN VecPanic
         ELSE IF v.cap < unwrap(ncap) THEN reallocate(v, unwrap(ncap))
         ELSE v

\* Write::write for Vec<u8>, vec.rs:533-543: <<the Vec, the count returned>>.
\* The bytes are copied behind the elements, into the capacity reserved;
\* len is not assigned, so the elements of the Vec are those it had
write(v, buf) ==
    LET r == reserve(v, Len(buf)) IN
    IF r.phase = "panic" THEN <<r, 0>> ELSE <<r, Len(buf)>>

\* the buffers written
Bufs == UNION {[1..n -> 0..1] : n \in 0..2}

SizeOfs == {0, 1, 4}
Allocators == {"XLangAlloc", "Arena"}

InitVec ==
    /\ vec \in {[phase |-> "uninit", size_of |-> sz] : sz \in SizeOfs}
    /\ pc = "vec"
    /\ args = NoArgs
    /\ file = NoFile
    /\ typestate = NoTypes
    /\ pending1 = <<>>
    /\ pending2 = <<>>
    /\ cur = "none"
    /\ checked = {}
    /\ local_tys = <<>>
    /\ block_exits = <<>>
    /\ vstack = <<>>
    /\ targets = NoTargets
    /\ rest = <<>>
    /\ diverged = FALSE
    /\ callers = <<>>
    /\ last = NoItem
    /\ err = "none"
    /\ steps = 0
    /\ balanced = TRUE

\* what a call on the Vec leaves alone
vec_frame ==
    <<file, typestate, pc, pending1, pending2, cur, checked, local_tys, block_exits,
      vstack, targets, rest, diverged, callers, err, steps, balanced, args>>

VecNewIn ==
    \E alloc \in Allocators :
        /\ vec.phase = "uninit"
        /\ vec' = new_in(alloc, vec.size_of)
        /\ last' = [op |-> "new_in"]
        /\ UNCHANGED vec_frame

VecWithCapacityIn ==
    \E cap \in 0..usize_MAX, alloc \in Allocators :
        /\ vec.phase = "uninit"
        /\ vec' = with_capacity_in(cap, alloc, vec.size_of)
        /\ last' = [op |-> "with_capacity_in", cap |-> cap, size_of |-> vec.size_of]
        /\ UNCHANGED vec_frame

VecWithCapacity ==
    \E cap \in 0..usize_MAX :
        /\ vec.phase = "uninit"
        /\ vec' = with_capacity(cap, vec.size_of)
        /\ last' = [op |-> "with_capacity", cap |-> cap, size_of |-> vec.size_of]
        /\ UNCHANGED vec_frame

VecPush ==
    \E val \in 0..1 :
        /\ vec.phase = "live"
        /\ vec.len < MaxLen
        /\ vec' = push(vec, val)
        /\ last' = [op |-> "push", val |-> val]
        /\ UNCHANGED vec_frame

VecPop ==
    /\ vec.phase = "live"
    /\ vec' = pop_back(vec)[1]
    /\ last' = [op |-> "pop", ret |-> pop_back(vec)[2]]
    /\ UNCHANGED vec_frame

VecReserve ==
    \E additional \in 0..usize_MAX :
        /\ vec.phase = "live"
        /\ vec' = reserve(vec, additional)
        /\ last' = [op |-> "reserve", additional |-> additional]
        /\ UNCHANGED vec_frame

\* write on a Vec<u8>
VecWrite ==
    \E buf \in Bufs :
        /\ vec.phase = "live"
        /\ vec.size_of = 1
        /\ vec' = write(vec, buf)[1]
        /\ last' = [op |-> "write", buf |-> buf, ret |-> write(vec, buf)[2]]
        /\ UNCHANGED vec_frame

NextVec ==
    \/ VecNewIn \/ VecWithCapacityIn \/ VecWithCapacity \/ VecPush \/ VecPop
    \/ VecReserve \/ VecWrite

SpecVec == InitVec /\ [][NextVec]_vars

(***************************************************************************)
(* Properties of check_unify (under SpecUnify).                            *)
(***************************************************************************)
\* the types reflexivity is stated for: all but an Array whose length is no
\* Integer value
reflexive_case(ty) == ty.tag = "Array" => ty.len.vtag = "Integer"

\* C1: check_unify is reflexive: for every type T (scalars of every kind,
\* Void, function types, pointers, products, aggregates, arrays of an Integer
\* length, named types, wrappers) check_unify(T, T) returns without aborting.
C1_Reflexive ==
    (args.phase \in {"once", "both"} /\ args.ty1 = args.ty2
        /\ reflexive_case(args.ty1))
    => args.res = "ok"

\* C2: check_unify is symmetric: with the same table, check_unify(A, B)
\* returns without aborting exactly when check_unify(B, A) does.
C2_Symmetric ==
    args.phase = "both" => (args.res = "ok" <=> args.swapped = "ok")

\* C2, its case: two Products of different lengths, unified both ways
C2_Witness ==
    /\ args.phase = "both"
    /\ args.ty1.tag = "Product" /\ args.ty2.tag = "Product"
    /\ Len(args.ty1.tys) < Len(args.ty2.tys)
    /\ args.ty1.tys # <<>>
    /\ args.res = "ok" /\ args.swapped = "ok"

(***************************************************************************)
(* Properties of the validator (under Spec).                               *)
(***************************************************************************)
\* the step replays an instruction or Target named op, which is accepted or
\* aborts the run; last' is the item replayed
Replayed(op) == pc = "block" /\ vars' # vars /\ last'.op = op
Accepted(op) == Replayed(op) /\ pc' = "block"

\* the function tycheck_function was called on last returned from it
FunctionAccepted == pc = "pass2" /\ last.op = "Return"

\* C3: in every function tycheck accepts, each Target reached by fall-through
\* found exactly as many items on the live stack as it declares.
C3_ExactCount == FunctionAccepted => balanced

\* C3, as the code has it: a Target reached by fall-through is accepted only
\* with at least as many live items as it declares, the topmost of which agree
\* with its shape; the live stack is its declared shape afterwards.
C3_AtLeastCount ==
    [][Accepted("Target") =>
          /\ Len(vstack) >= Len(last'.stack)
          /\ vstack' = last'.stack]_vars

\* C3, its case: a function is accepted one of whose Targets discarded items
C3_Witness == FunctionAccepted /\ ~balanced

\* C4: an accepted ExitBlock{blk, values} removes exactly the top `values`
\* items of the live stack and leaves an exit stack of length `values`
\* recorded for blk; with more `values` than live items it aborts.
C4_ExitBlock ==
    [][Replayed("ExitBlock") =>
          LET values == last'.values
              blk    == last'.blk
          IN  /\ Len(vstack) < values => pc' = "panic"
              /\ pc' = "block" =>
                    /\ Len(vstack) >= values
                    /\ vstack' = SubSeq(vstack, 1, Len(vstack) - values)
                    /\ block_exits'[blk + 1].some
                    /\ Len(block_exits'[blk + 1].items) = values]_vars

\* C4, its case: an accepted exit of two values that left an item on the
\* live stack
C4_Witness ==
    /\ pc = "block"
    /\ last.op = "ExitBlock"
    /\ last.values = 2
    /\ Len(vstack) = 1
    /\ Len(block_exits[last.blk + 1].items) = 2

\* C5: AsRValue and AddrOf abort on an r-value on top of the stack, Assign on
\* an r-value second from the top: none of the three completes with an
\* r-value where it takes an l-value.
C5_KindDiscipline ==
    [][/\ Replayed("AsRValue") \/ Replayed("AddrOf") =>
            /\ (vstack # <<>> /\ vstack[Len(vstack)].kind = "RValue") => pc' = "panic"
            /\ pc' = "block" => vstack[Len(vstack)].kind = "LValue"
       /\ Replayed("Assign") =>
            /\ (Len(vstack) >= 2 /\ vstack[Len(vstack) - 1].kind = "RValue")
                  => pc' = "panic"
            /\ pc' = "block" => vstack[Len(vstack) - 1].kind = "LValue"]_vars

\* C5, its case: AsRValue found an r-value and aborted
C5_Witness ==
    /\ pc = "panic"
    /\ last.op = "AsRValue"
    /\ err = "kind"

\* the item a call with n call-site parameters takes as its callee
callee_of(stack, n) == stack[Len(stack) - n]
\* the items it takes as its arguments
args_of(stack, n) == SubSeq(stack, Len(stack) - n + 1, Len(stack))

\* C6: a call whose callee is a non-variadic function of k parameters aborts
\* when the call-site signature has another number of parameters than k,
\* whatever else the stack holds.
C6_CallArity ==
    [][Replayed("CallFunction") =>
          LET sig == last'.fnty
              n   == Len(sig.params)
          IN  Len(vstack) > n =>
                LET fn == callee_type(callee_of(vstack, n), typestate)
                IN  (fn # Null /\ ~fn.variadic /\ Len(fn.params) # n)
                        => pc' = "panic"]_vars

\* the stack holds an r-value callee, a pointer to a function, and on top of
\* it one r-value per call-site parameter; each declared parameter, its
\* call-site parameter and the argument unify, and so do the return types
call_matches(stack, sig, tystate) ==
    LET n == Len(sig.params) IN
    /\ Len(stack) > n
    /\ callee_of(stack, n).kind = "RValue"
    /\ LET fn == callee_type(callee_of(stack, n), tystate)
           params == args_of(stack, n)
       IN  /\ fn # Null
           /\ Len(fn.params) <= n
           /\ \A i \in 1..Len(fn.params) :
                 check_unify(fn.params[i], sig.params[i], tystate) = "ok"
           /\ check_unify(fn.ret, sig.ret, tystate) = "ok"
           /\ \A i \in 1..n :
                 /\ params[i].kind = "RValue"
                 /\ check_unify(params[i].ty, sig.params[i], tystate) = "ok"

\* what a call leaves of stack: the items below the callee and its result
call_effect(stack, sig) ==
    Append(SubSeq(stack, 1, Len(stack) - Len(sig.params) - 1), RValue(sig.ret))

\* C7: a call whose callee, parameters, arguments and return types match is
\* accepted and replaces the callee and the arguments by one r-value of the
\* call-site return type, the items below the callee staying as they are.
C7_Call ==
    [][Replayed("CallFunction") =>
          (call_matches(vstack, last'.fnty, typestate)
              => pc' = "block" /\ vstack' = call_effect(vstack, last'.fnty))]_vars

\* C7, as the code has it: the same, of a call-site signature that is not
\* variadic.
C7_CallNotVariadic ==
    [][Replayed("CallFunction") =>
          ((call_matches(vstack, last'.fnty, typestate) /\ ~last'.fnty.variadic)
              => pc' = "block" /\ vstack' = call_effect(vstack, last'.fnty))]_vars

\* C7, its case: a function of one parameter was called above another item
C7_Witness ==
    /\ pc = "block"
    /\ last.op = "CallFunction"
    /\ last.fnty = Sig1
    /\ file[cur].ty = SigFoo
    /\ vstack = <<RValue(I32), RValue(I32)>>

\* the paths a function signature names
signature_names(fnty) ==
    {ty.path : ty \in {t \in {fnty.params[i] : i \in 1..Len(fnty.params)}
                               \cup {fnty.ret} : t.tag = "Named"}}

\* a function signature of the File names a path no member of the File defines
UnresolvedName ==
    \E path \in DOMAIN file :
        /\ file[path].decl = "Function"
        /\ signature_names(file[path].ty) \ DOMAIN file # {}

\* C8: if a function signature of the File names a type no member of the
\* File defines, tycheck aborts in pass one: pass two is never entered and no
\* function body is checked.
C8_UnresolvedAbortsPassOne ==
    UnresolvedName => (pc \in {"pass1", "panic"} /\ checked = {})

\* the top items of stack agree with shape, position by position: the same
\* kind, and types that unify
agrees(stack, shape, tystate) ==
    /\ Len(stack) >= Len(shape)
    /\ \A i \in 1..Len(shape) :
          LET a == stack[Len(stack) - Len(shape) + i]
          IN  a.kind = shape[i].kind
                  /\ check_unify(a.ty, shape[i].ty, tystate) = "ok"

\* the stack a Branch compares with its target: the condition is popped
branch_stack(stack, cond) ==
    IF cond \in {"Always", "Never"} THEN stack
    ELSE SubSeq(stack, 1, Len(stack) - 1)

\* C9: a Target reached by fall-through (also right after a nested block
\* pushed its exit values) and a Branch naming a label are accepted only when
\* the top items of the live stack agree with the label's declared shape, in
\* kind and, by unification, in type: an int8 where the label declares an
\* int32 aborts.
C9_JoinPoint ==
    [][/\ Accepted("Target") => agrees(vstack, last'.stack, typestate)
       /\ Accepted("Branch") =>
             /\ last'.target \in DOMAIN targets
             /\ agrees(branch_stack(vstack, last'.cond), targets[last'.target],
                       typestate)
       /\ \A op \in {"Target", "Branch"} :
             (/\ Replayed(op)
              /\ vstack # <<>>
              /\ vstack[Len(vstack)] = RValue(I8)
              /\ IF op = "Target" THEN last'.stack = <<RValue(I32)>>
                 ELSE /\ last'.cond = "Always"
                      /\ last'.target \in DOMAIN targets
                      /\ targets[last'.target] = <<RValue(I32)>>)
             => pc' = "panic"]_vars

\* C9, its case: a Branch on a condition was accepted for a label that
\* declares an item
C9_Witness ==
    /\ pc = "block"
    /\ last.op = "Branch"
    /\ last.cond = "Equal"
    /\ last.target \in DOMAIN targets
    /\ targets[last.target] = <<RValue(I32)>>
    /\ vstack = <<RValue(I32)>>

\* the exit stack the root block returns: that of block 0, empty if no
\* ExitBlock recorded one
root_exit(exits) == IF exits[1].some THEN exits[1].items ELSE <<>>

\* C10: a function body is accepted only if its root block returns no item
\* when the function returns Void, and otherwise exactly one item, whose type
\* unifies with the declared return type; a function that does not return
\* Void and whose root block recorded no exit is rejected.
C10_FunctionReturn ==
    [][Replayed("Return") =>
          LET ty  == file[cur].ty
              ret == root_exit(block_exits)
          IN  /\ pc' = "pass2" =>
                    IF ty.ret = Void THEN Len(ret) = 0
                    ELSE /\ Len(ret) = 1
                         /\ check_unify(ret[1].ty, ty.ret, typestate) = "ok"
              /\ (ty.ret # Void /\ ~block_exits[1].some) => pc' = "panic"]_vars

\* C10, its case: a function that returns an int32 was accepted
C10_Witness ==
    /\ FunctionAccepted
    /\ file[cur].ty.ret = I32
    /\ last.ret = <<RValue(I32)>>

\* the tables of a File, whatever the order its members are visited in
table_of(f) ==
    LET typed == {p \in DOMAIN f : f[p].decl \in {"Function", "Static"}}
        aggrs == {p \in DOMAIN f :
                     f[p].decl \in {"AggregateDefinition", "OpaqueAggregate"}}
    IN  [tys |-> [p \in typed |-> f[p].ty],
         aggregate |-> [p \in aggrs |->
                           IF f[p].decl = "AggregateDefinition" THEN Some(f[p].defn)
                           ELSE None]]

\* C11: the global type table and the aggregate table change only in pass
\* one, before any function body is checked; from the start of pass two on
\* they are the tables of the File, the same for every order in which the
\* members are iterated.
C11_TwoPass ==
    [][/\ typestate' # typestate =>
             (pc = "pass1" /\ pc' = "pass1" /\ checked = {} /\ checked' = {})
       /\ pc' # "pass1" => typestate' = table_of(file)]_vars

\* C11, its case: the body of g takes the address of h, a member the loops
\* visit after g
C11_Witness ==
    /\ pc = "block"
    /\ cur = "g"
    /\ pending2 = <<"h">>
    /\ last.op = "Const"
    /\ last.v = GlobalAddress(SigV, "h")

has_body(member) == member.decl = "Function" /\ member.body

\* C12: tycheck_function runs on the function members with a body and on no
\* other member; when the loop of pass two visits a member that is not a
\* function with a body (a declaration, a static), it goes on to the next
\* member: nothing is checked and the run does not fail.
C12_BodiesOnly ==
    [][/\ checked' \subseteq {p \in DOMAIN file : has_body(file[p])}
       /\ (pc = "pass2" /\ pending2 # <<>> /\ ~has_body(file[Head(pending2)]))
             => (pc' = "pass2" /\ checked' = checked)]_vars

\* the paths of the functions with a body among the members of a scope and,
\* below prefix, of its nested scopes
RECURSIVE bodied_functions(_, _)
bodied_functions(members, prefix) ==
    UNION { IF has_body(members[p]) THEN {prefix \o <<p>>}
            ELSE IF members[p].decl = "Scope"
            THEN bodied_functions(members[p].members, prefix \o <<p>>)
            ELSE {}
          : p \in DOMAIN members }

\* C13: when tycheck returns, every function with a body of the scope tree,
\* in the root scope or in a nested one, was registered by pass one and
\* checked by pass two.
C13_ScopeTree ==
    pc = "done" =>
        \A path \in bodied_functions(file, <<>>) :
            /\ Len(path) = 1
            /\ path[1] \in checked
            /\ path[1] \in DOMAIN typestate.tys

is_scalar(ty) == refiy_type(typestate, ty).tag = "Scalar"

\* C14: an unchecked arithmetic BinaryOp replayed on two r-values of the
\* same scalar type T is accepted, removes the two and pushes one r-value of
\* type T; the items below them stay as they are.
C14_BinaryOp ==
    [][(/\ Replayed("BinaryOp")
        /\ last'.bop \notin {"CmpInt", "Cmp", "CmpLt", "CmpLe", "CmpGt", "CmpGe",
                            "CmpNe", "CmpEq"}
        /\ last'.v = "Unchecked"
        /\ Len(vstack) >= 2
        /\ vstack[Len(vstack)].kind = "RValue"
        /\ vstack[Len(vstack) - 1] = vstack[Len(vstack)]
        /\ is_scalar(vstack[Len(vstack)].ty))
          => /\ pc' = "block"
             /\ vstack' = Append(SubSeq(vstack, 1, Len(vstack) - 2),
                                 RValue(vstack[Len(vstack)].ty))]_vars

\* C14, its case: the l-value of local 1 and two r-values of type int8 were
\* pushed and the two r-values added
C14_Witness ==
    /\ pc = "block"
    /\ last = [op |-> "BinaryOp", bop |-> "Add", v |-> "Unchecked"]
    /\ steps = 4
    /\ vstack = <<LValue(U8), RValue(I8)>>

\* C15: PreInc and PreDec replayed on an l-value of scalar type T are
\* accepted; checked, they leave the l-value of type T and above it an
\* r-value of type 1-bit unsigned integer, unchecked only the l-value.
C15_PreIncDec ==
    [][(/\ Replayed("LValueOp")
        /\ last'.lop \in {"PreInc", "PreDec"}
        /\ vstack # <<>>
        /\ vstack[Len(vstack)].kind = "LValue"
        /\ is_scalar(vstack[Len(vstack)].ty))
          => /\ pc' = "block"
             /\ vstack' = vstack \o (IF last'.v = "Checked"
                                     THEN <<RValue(Scalar(1, 0, "Integer", 0, 0))>>
                                     ELSE <<>>)]_vars

\* C15, its case: Local(1), a uint8 local, then a checked PreInc
C15_Witness ==
    /\ pc = "block"
    /\ last = [op |-> "LValueOp", lop |-> "PreInc", v |-> "Checked"]
    /\ steps = 2
    /\ vstack = <<LValue(U8), RValue(Scalar(1, 0, "Integer", 0, 0))>>

\* C16: right after Vec::with_capacity_in(cap, alloc) or
\* Vec::with_capacity(cap) returns, nothing was allocated when cap is 0 or
\* the element type is zero-sized, and otherwise the Vec is empty with a
\* capacity of at least cap.
C16_WithCapacity ==
    (last.op \in {"with_capacity_in", "with_capacity"} /\ vec.phase = "live")
        => IF last.cap = 0 \/ last.size_of = 0
           THEN vec.ptr = "dangling" /\ vec.bytes = 0
           ELSE vec.len = 0 /\ vec.cap >= last.cap

\* C17: right after an accepted Target item the live stack is exactly the
\* shape the Target declares, whatever it held before, and the diverged flag
\* is false.
C17_AfterTarget ==
    [][Accepted("Target") => (vstack' = Head(rest).stack /\ ~diverged')]_vars

\* C17, its case: a Target reached with more live items than it declares
C17_Witness ==
    /\ pc = "block"
    /\ last.op = "Target"
    /\ ~balanced
    /\ vstack = last.stack
    /\ ~diverged

\* C18: check_unify_stack(stack, target) succeeds exactly when the stack has
\* at least len(target) items and its top len(target) items, in order, are
\* each of the kind of and unify in type with the item of target at the same
\* position; a shorter stack is rejected; the items below the window have no
\* part in the result, and neither sequence is changed.
C18_TopWindow ==
    /\ args.phase \in {"once", "both"} =>
          /\ args.res = "ok" <=> agrees(args.stack, args.target, typestate)
          /\ Len(args.stack) < Len(args.target) => args.res = "panic"
    /\ args.phase = "both" => args.window = args.res

\* C18, its case: a stack of three items, the bottom one unlike anything in
\* the shape of two items, which the top two agree with
C18_Witness ==
    /\ args.phase = "both"
    /\ args.stack = <<LValue(I32), RValue(I8), RValue(I32)>>
    /\ args.target = <<RValue(I8), RValue(Null)>>
    /\ args.res = "ok"

\* C19: the exit stack recorded for a block does not change as long as the
\* block is replayed, and an ExitBlock for a block with a recorded exit stack
\* is accepted only if its value count is the recorded length and the items
\* it takes agree with the recorded ones in kind and unify in type, in order.
C19_ExitRecorded ==
    [][/\ \A i \in DOMAIN block_exits :
             (block_exits[i].some /\ pc' = "block" /\ i \in DOMAIN block_exits')
                 => block_exits'[i] = block_exits[i]
       /\ (Accepted("ExitBlock") /\ block_exits[last'.blk + 1].some) =>
             /\ last'.values = Len(block_exits[last'.blk + 1].items)
             /\ agrees(vstack, block_exits[last'.blk + 1].items, typestate)]_vars

\* C19, its case: the address of f was exited and recorded, then another
\* address was exited, and the record is as it was
C19_Witness ==
    /\ pc = "block"
    /\ last = [op |-> "ExitBlock", blk |-> 0, values |-> 1]
    /\ steps = 4
    /\ callers = <<>>
    /\ vstack = <<>>
    /\ block_exits = <<Some(<<RValue(DefaultPointer(Sig2))>>)>>

\* C20: when a nested block returns, the enclosing block's live stack is
\* what it was when the block was entered followed by the exit stack
\* recorded for the nested block, nothing if none was recorded; the items
\* the nested block left on its own live stack are not among them.
C20_BlockResult ==
    [][Replayed("EndBlock") =>
          LET exit == block_exits[Len(block_exits)]
              outer == callers[Len(callers)].vstack
          IN  vstack' = outer \o (IF exit.some THEN exit.items ELSE <<>>)]_vars

\* C20, its case: a nested block returned its exit stack of one item to an
\* enclosing block that held an item
C20_Witness ==
    /\ pc = "block"
    /\ last.op = "EndBlock"
    /\ Len(last.res) = 1
    /\ Len(vstack) = 2

\* C21: while a block at nesting depth d is replayed the block-exit table
\* has exactly d+1 entries; Expr::Block{n} is accepted only if n is the
\* length of the table, d+1, and ExitBlock{blk} with blk greater than d
\* aborts.
C21_Ordinals ==
    [][/\ pc' = "block" => Len(block_exits') = Len(callers') + 1
       /\ Accepted("Block") =>
             /\ last'.n = Len(block_exits)
             /\ last'.n = Len(callers) + 1
             /\ Len(callers') = Len(callers) + 1
       /\ Accepted("EndBlock") => Len(callers') = Len(callers) - 1
       /\ (Replayed("ExitBlock") /\ last'.blk > Len(callers)) => pc' = "panic"]_vars

\* C21, its case: a nested block of ordinal 1 was entered as the fourth
\* instruction of a root block that holds items (after a sibling returned its
\* exit stack, or after the root block pushed them)
C21_Witness ==
    /\ pc = "block"
    /\ last = [op |-> "Block", n |-> 1]
    /\ Len(callers) = 1
    /\ callers[1].vstack # <<>>
    /\ Len(block_exits) = 2
    /\ steps = 4

\* an r-value whose reified type is an integer scalar
integer_rvalue(item) ==
    /\ item.kind = "RValue"
    /\ refiy_type(typestate, item.ty).tag = "Scalar"
    /\ refiy_type(typestate, item.ty).kind = "Integer"

\* C22: Branch{cond, target} pops nothing when cond is Always or Never and
\* otherwise exactly one item, which must be an r-value whose reified type
\* is an integer scalar, else the run aborts; the remaining stack must agree
\* with the declared shape of the label, and an accepted Branch leaves the
\* live stack as it was apart from the condition.
C22_Branch ==
    [][Replayed("Branch") =>
          LET popped == last'.cond \notin {"Always", "Never"}
              remaining == IF popped THEN SubSeq(vstack, 1, Len(vstack) - 1)
                           ELSE vstack
          IN  /\ (popped /\ (vstack = <<>> \/ ~integer_rvalue(vstack[Len(vstack)])))
                    => pc' = "panic"
              /\ pc' = "block" =>
                    /\ vstack' = remaining
                    /\ last'.target \in DOMAIN targets
                    /\ agrees(remaining, targets[last'.target], typestate)]_vars

\* C22, its case: a conditional Branch to a label of empty shape popped its
\* condition off a stack of three items
C22_Witness ==
    /\ pc = "block"
    /\ last.op = "Branch"
    /\ last.cond = "Equal"
    /\ last.target \in DOMAIN targets
    /\ targets[last.target] = <<>>
    /\ Len(vstack) = 2

(***************************************************************************)
(* Properties of the instructions of control flow (under SpecFlow).        *)
(***************************************************************************)
\* C23: BranchIndirect pops exactly one item and accepts it exactly when it
\* is an r-value whose type unifies with pointer-to-Void; the r-value that
\* Const(LabelAddress(n)) pushed is accepted by the BranchIndirect that
\* follows it immediately.
C23_BranchIndirect ==
    [][(Replayed("BranchIndirect") /\ vstack # <<>>) =>
          LET target == vstack[Len(vstack)] IN
          /\ pc' = "block" <=>
                (/\ target.kind = "RValue"
                 /\ check_unify(target.ty, DefaultPointer(Void), typestate) = "ok")
          /\ pc' = "block" => vstack' = SubSeq(vstack, 1, Len(vstack) - 1)
          /\ (last.op = "Const" /\ last.v.vtag = "LabelAddress") => pc' = "block"]_vars

\* C24: BinaryOp is accepted only if the two items it pops are r-values and
\* the types of both reify to Scalar. (Stated of the runs of SpecOps.)
C24_BinaryOperands ==
    [][Accepted("BinaryOp") =>
          \A i \in {Len(vstack) - 1, Len(vstack)} :
              /\ vstack[i].kind = "RValue"
              /\ is_scalar(vstack[i].ty)]_vars

\* the stack Pivot(n, m) is to leave: below, then the top m items, then the n
\* items that were below them
pivoted(stack, n, m) ==
    LET h == Len(stack) IN
    SubSeq(stack, 1, h - n - m) \o SubSeq(stack, h - m + 1, h)
        \o SubSeq(stack, h - n - m + 1, h - m)

\* C25: Pivot(n, m) aborts when n + m exceeds the height of the stack, and
\* otherwise leaves the items below the top n + m as they are, then the
\* group of m items that was on top, then the group of n items that was
\* below it, each in its order; a Pivot(m, n) on the result gives the
\* original stack back.
C25_Pivot ==
    [][Replayed("Pivot") =>
          LET n == last'.n
              m == last'.m
          IN  IF n + m > Len(vstack) THEN pc' = "panic"
              ELSE /\ pc' = "block"
                   /\ vstack' = pivoted(vstack, n, m)
                   /\ Len(vstack') = Len(vstack)
                   /\ expr_Pivot([op |-> "Pivot", n |-> m, m |-> n], vstack',
                                 block_exits').vstack = vstack]_vars

\* C25, its case: Pivot(2, 1) on three items, the groups unlike each other
C25_Witness ==
    /\ pc = "block"
    /\ last = [op |-> "Pivot", n |-> 2, m |-> 1]
    /\ steps = 1
    /\ vstack = <<RValue(I8), RValue(I32), LValue(I32)>>

\* C26: Indirect right after AddrOf is accepted and leaves the l-value of
\* type T that AddrOf took; AddrOf right after Indirect is accepted and
\* leaves the r-value of the pointer type that Indirect took, alias and
\* valid range included. (Stated of the runs of Spec.)
C26_Inverses ==
    [][/\ (Replayed("Indirect") /\ last.op = "AddrOf") =>
             /\ pc' = "block"
             /\ vstack' = [vstack EXCEPT ![Len(vstack)] = LValue(@.ty.inner)]
             /\ vstack[Len(vstack)] = RValue(DefaultPointer(vstack'[Len(vstack)].ty))
       /\ (Replayed("AddrOf") /\ last.op = "Indirect") =>
             /\ pc' = "block"
             /\ vstack'[Len(vstack')].kind = "RValue"
             /\ vstack'[Len(vstack')].ty.inner = vstack[Len(vstack)].ty]_vars

\* two declared shapes of the same length that agree in kind and unify in
\* type at every position
same_shape(a, b) ==
    /\ Len(a) = Len(b)
    /\ \A j \in 1..Len(a) :
          /\ a[j].kind = b[j].kind
          /\ check_unify(a[j].ty, b[j].ty, typestate) = "ok"

\* C27: a Hash switch pops one item, which must be an r-value whose reified
\* type is an integer scalar; it is accepted only if every case value is an
\* Integer whose type unifies with the type of the control value, every case
\* names a declared label, the remaining live stack agrees with the shape of
\* the first case's label, and the shape of every later case's label has the
\* length of the first one's and agrees with it in kind and unifies in type
\* at every position.
C27_HashSwitch ==
    [][(Replayed("Switch") /\ last'.kind = "Hash") =>
          LET cases == last'.cases
              shape(i) == targets[cases[i].targ]
          IN  /\ (vstack = <<>> \/ ~integer_rvalue(vstack[Len(vstack)]))
                    => pc' = "panic"
              /\ pc' = "block" =>
                    /\ vstack' = SubSeq(vstack, 1, Len(vstack) - 1)
                    /\ \A i \in 1..Len(cases) :
                          /\ cases[i].val.vtag = "Integer"
                          /\ check_unify(vstack[Len(vstack)].ty, cases[i].val.ty,
                                         typestate) = "ok"
                          /\ cases[i].targ \in DOMAIN targets
                    /\ cases # <<>> => agrees(vstack', shape(1), typestate)
                    /\ \A i \in 2..Len(cases) : same_shape(shape(1), shape(i))]_vars

\* C27, its case: a switch of two cases whose labels declare an int32
\* r-value and a Null r-value, on a stack of two int32 r-values
C27_Witness ==
    /\ pc = "block"
    /\ last.op = "Switch"
    /\ last.kind = "Hash"
    /\ last.cases = <<Case(IntegerValue(I32, 2), 0), Case(IntegerValue(I32, 3), 3)>>
    /\ steps = 1
    /\ vstack = <<RValue(I32)>>

\* C28: an accepted Derive(pty, inner) leaves the stack as high as the
\* inner expression alone leaves it (here a Const: one item more than
\* before), the items below as they were and, on top, an r-value pointer
\* with the alias, valid range and declaration site of pty.
C28_Derive ==
    [][Accepted("Derive") =>
          /\ Len(vstack') = Len(vstack) + 1
          /\ SubSeq(vstack', 1, Len(vstack)) = vstack
          /\ LET ptr == vstack'[Len(vstack')] IN
             /\ ptr.kind = "RValue"
             /\ ptr.ty.tag = "Pointer"
             /\ ptr.ty.alias = last'.pty.alias
             /\ ptr.ty.valid_range = last'.pty.valid_range
             /\ ptr.ty.decl = last'.pty.decl]_vars

(***************************************************************************)
(* More properties of check_unify (under SpecUnify).                       *)
(***************************************************************************)
\* a type without the TaggedType and Aligned wrappers around it
RECURSIVE unwrapped(_)
unwrapped(ty) ==
    IF ty.tag \in {"TaggedType", "Aligned"} THEN unwrapped(ty.inner) ELSE ty

\* C29: when check_unify(T, T) succeeds, a type that wraps T in one or more
\* TaggedType / Aligned wrappers unifies with T and with every other such
\* wrapping of T, also when T is a Named type the table resolves.
C29_Wrappers ==
    (/\ args.phase \in {"once", "both"}
     /\ args.ty1.tag \in {"TaggedType", "Aligned"}
           \/ args.ty2.tag \in {"TaggedType", "Aligned"}
     /\ unwrapped(args.ty1) = unwrapped(args.ty2)
     /\ check_unify(unwrapped(args.ty1), unwrapped(args.ty1), args.tystate) = "ok")
    => args.res = "ok"

\* C30: check_unify of two Products succeeds exactly when their elements
\* unify at every position both have; the elements the longer one has beyond
\* the shorter one do not count.
C30_Product ==
    (/\ args.phase \in {"once", "both"}
     /\ args.ty1.tag = "Product"
     /\ args.ty2.tag = "Product")
    => (args.res = "ok" <=>
           \A i \in 1..Min(Len(args.ty1.tys), Len(args.ty2.tys)) :
               check_unify(args.ty1.tys[i], args.ty2.tys[i], args.tystate) = "ok")

\* C30, its case: a Product of two elements and its prefix of one element
C30_Witness ==
    /\ args.phase = "once"
    /\ args.ty1 = Product(<<I32, I8>>)
    /\ args.ty2 = Product(<<I32>>)
    /\ args.res = "ok"

(***************************************************************************)
(* Properties of the constants, the labels and the exits (under Spec).     *)
(***************************************************************************)
\* C31: Const(GlobalAddress{ty: Null, item}) aborts when item is no key of
\* the type table; when it is one, ty becomes the entry of the table and an
\* r-value pointer to that type is pushed.
C31_GlobalAddress ==
    [][(Replayed("Const") /\ last'.v.vtag = "GlobalAddress") =>
          LET item == last'.v.item IN
          IF item \in DOMAIN typestate.tys
          THEN /\ pc' = "block"
               /\ last'.v.ty = typestate.tys[item]
               /\ vstack' = Append(vstack, RValue(DefaultPointer(typestate.tys[item])))
          ELSE pc' = "panic"]_vars

\* C32: the diverged flag is false before and after every step, so every
\* Target is checked against the live stack: a Target replayed right after
\* a Branch or an ExitBlock is accepted exactly when the stack that
\* instruction left unifies with the shape the Target declares.
C32_NeverDiverged ==
    [][/\ ~diverged
       /\ ~diverged'
       /\ (Replayed("Target") /\ last.op \in {"Branch", "ExitBlock"}) =>
             (pc' = "block" <=>
                 check_unify_stack(vstack, last'.stack, typestate) = "ok")]_vars

\* C32, its case: an unconditional Branch was replayed, the flag is false,
\* and the Target that follows declares a shape the stack left does not
\* unify with
C32_Witness ==
    /\ pc = "block"
    /\ last.op = "Branch"
    /\ last.cond = "Always"
    /\ ~diverged
    /\ rest # <<>>
    /\ check_unify_stack(vstack, Head(rest).stack, typestate) # "ok"

(***************************************************************************)
(* check_unify call by call: what one activation does before, between and  *)
(* after the calls it makes. The work still to do is a list: a call of     *)
(* check_unify, or an assert_eq! that runs after a call returned. An       *)
(* activation that has nothing left to do after its last call leaves       *)
(* nothing in the list.                                                    *)
(***************************************************************************)
Call(ty1, ty2) == [k |-> "call", ty1 |-> ty1, ty2 |-> ty2]
Check(holds) == [k |-> "assert", holds |-> holds]

\* xs.iter().zip(ys).for_each(check_unify): the calls, in order
zip_calls(xs, ys) == [i \in 1..Min(Len(xs), Len(ys)) |-> Call(xs[i], ys[i])]

\* defn1.fields.iter().zip(&defn2.fields): per field the call, then the
\* assert_eq! of the names
field_calls(fs1, fs2) ==
    [j \in 1..(2 * Min(Len(fs1), Len(fs2))) |->
        LET i == (j + 1) \div 2
        IN  IF j % 2 = 1 THEN Call(fs1[i][2], fs2[i][2])
            ELSE Check(fs1[i][1] = fs2[i][1])]

\* one activation of check_unify: a panic of its own, or the calls and
\* assertions it goes on with
unify_arm(ty1, ty2, tystate) ==
    LET a == refiy_type(tystate, ty1)
        b == refiy_type(tystate, ty2)
        Go(work) == [res |-> "ok", work |-> work]
        Stop == [res |-> "panic", work |-> <<>>]
    IN  CASE wildcard(a, b) -> Go(<<>>)
          [] a.tag = "Scalar" /\ b.tag = "Scalar" ->
               IF unify_scalar(a, b) = "ok" THEN Go(<<>>) ELSE Stop
          [] a.tag = "FnType" /\ b.tag = "FnType" ->
               IF a.abi # b.abi \/ a.variadic # b.variadic
                     \/ Len(a.params) # Len(b.params)
               THEN Stop
               ELSE Go(zip_calls(a.params, b.params) \o <<Call(a.ret, b.ret)>>)
          [] a.tag = "Pointer" /\ b.tag = "Pointer" -> Go(<<Call(a.inner, b.inner)>>)
          [] a.tag = "Product" /\ b.tag = "Product" -> Go(zip_calls(a.tys, b.tys))
          [] a.tag = "Aggregate" /\ b.tag = "Aggregate" ->
               IF a.kind # b.kind \/ a.annotations # b.annotations THEN Stop
               ELSE Go(field_calls(a.fields, b.fields))
          [] a.tag = "Array" /\ b.tag = "Array" ->
               IF a.len.vtag = "Integer" /\ b.len.vtag = "Integer"
               THEN Go(<<Call(a.len.ty, b.len.ty), Check(a.len.val = b.len.val)>>)
               ELSE Stop
          [] a.tag = "Named" /\ b.tag = "Named" ->
               IF a.path = b.path THEN Go(<<>>) ELSE Stop
          [] OTHER -> Stop

\* tables as pass one leaves them for a File with a function c that returns
\* Named(c), a static w of type pointer to Named(w), a static s and the
\* aggregate S
CallTables ==
    { NoTypes,
      [tys |-> [c |-> FnType(Named("c"), <<>>, "C", FALSE),
                w |-> DefaultPointer(Named("w")), s |-> I32],
       aggregate |-> [S |-> Some(StructS)]] }

InitCalls ==
    /\ args \in {[phase |-> "running", ty1 |-> a, ty2 |-> b, tystate |-> t,
                  work |-> <<Call(a, b)>>, entered |-> 0] :
                    a \in Types, b \in Types, t \in CallTables}
    /\ file = NoFile
    /\ typestate = NoTypes
    /\ pc = "unify"
    /\ pending1 = <<>>
    /\ pending2 = <<>>
    /\ cur = "none"
    /\ checked = {}
    /\ local_tys = <<>>
    /\ block_exits = <<>>
    /\ vstack = <<>>
    /\ targets = NoTargets
    /\ rest = <<>>
    /\ diverged = FALSE
    /\ callers = <<>>
    /\ last = NoItem
    /\ err = "none"
    /\ steps = 0
    /\ balanced = TRUE
    /\ vec = NoVec

\* the next call in the list is made: its activation panics, or goes on
\* with its own calls before the rest of the list. The number of activations
\* entered has no bound; its parity is kept.
CallsEnter ==
    /\ args.phase = "running"
    /\ args.work # <<>>
    /\ Head(args.work).k = "call"
    /\ LET r == unify_arm(Head(args.work).ty1, Head(args.work).ty2, args.tystate)
       IN  args' = IF r.res = "panic"
                   THEN [args EXCEPT !.phase = "panicked", !.work = <<>>]
                   ELSE [args EXCEPT !.work = r.work \o Tail(args.work),
                                     !.entered = (args.entered + 1) % 2]
    /\ UNCHANGED <<tycheck_vars, vec>>

\* the assert_eq! after a call that returned
CallsAssert ==
    /\ args.phase = "running"
    /\ args.work # <<>>
    /\ Head(args.work).k = "assert"
    /\ args' = IF Head(args.work).holds
               THEN [args EXCEPT !.work = Tail(args.work)]
               ELSE [args EXCEPT !.phase = "panicked", !.work = <<>>]
    /\ UNCHANGED <<tycheck_vars, vec>>

\* the outermost check_unify returns
CallsReturn ==
    /\ args.phase = "running"
    /\ args.work = <<>>
    /\ args' = [args EXCEPT !.phase = "returned"]
    /\ UNCHANGED <<tycheck_vars, vec>>

NextCalls == CallsEnter \/ CallsAssert \/ CallsReturn

\* a call that was entered goes on running
SpecCalls == InitCalls /\ [][NextCalls]_vars /\ WF_vars(NextCalls)

(***************************************************************************)
(* tycheck called twice on one File. The body of the function is kept as   *)
(* the list of its items, each replaced by what tycheck_expr leaves of it  *)
(* (expr: &mut Expr); the second call finds the File the first one left.   *)
(***************************************************************************)
MaxBody == 3

\* the function checked: fn f() -> void
SigU == FnType(Void, <<>>, "C", FALSE)

\* tycheck_expr, validate.rs:229-842: the arm of the instruction
RECURSIVE tycheck_expr(_, _, _, _, _)
tycheck_expr(expr, stack, exits, tgts, tystate) ==
    CASE expr.op = "Const" -> expr_Const(expr, stack, exits, tgts, tystate)
      [] expr.op = "Pop" -> expr_Pop(expr, stack, exits)
      [] expr.op = "Indirect" -> expr_Indirect(expr, stack, exits)
      [] expr.op = "Derive" ->
           expr_Derive(expr, tycheck_expr(expr.inner, stack, exits, tgts, tystate),
                       tystate)

\* the instructions the bodies are made of
BodyItems ==
    { [op |-> "Const", v |-> v] :
         v \in {IntegerValue(I32, 2), GlobalAddress(Null, "f"), GlobalAddress(Null, "h"),
                GlobalAddress(I8, "f")} }
    \cup { [op |-> "Pop", n |-> 1], [op |-> "Indirect"] }
    \cup { [op |-> "Derive", pty |-> Pointer("Unique", "Dereference", 1, Null),
            inner |-> [op |-> "Const", v |-> v]] :
              v \in {GlobalAddress(Null, "f"), IntegerValue(I32, 2)} }

\* tycheck is entered: pass one has filled the table and tycheck_function
\* is about to replay the body of f
InitTwice ==
    /\ file = [f |-> Function(SigU, TRUE, <<>>)]
    /\ typestate = [tys |-> [f |-> SigU], aggregate |-> [p \in {} |-> Null]]
    /\ args \in {[phase |-> "first", body |-> b, body0 |-> b, body1 |-> <<>>, at |-> 1] :
                    b \in UNION {[1..n -> BodyItems] : n \in 1..MaxBody}}
    /\ pc = "block"
    /\ pending1 = <<>>
    /\ pending2 = <<>>
    /\ cur = "f"
    /\ checked = {"f"}
    /\ local_tys = <<>>
    /\ block_exits = <<None>>
    /\ vstack = <<>>
    /\ targets = NoTargets
    /\ rest = <<>>
    /\ diverged = FALSE
    /\ callers = <<>>
    /\ last = NoItem
    /\ err = "none"
    /\ steps = 0
    /\ balanced = TRUE
    /\ vec = NoVec

twice_frame ==
    UNCHANGED <<file, typestate, pending1, pending2, cur, checked, local_tys, targets,
                rest, callers, steps, balanced, vec>>

\* tycheck_block, validate.rs:866-870: the next item of the body
TwiceItem ==
    /\ pc = "block"
    /\ args.phase \in {"first", "second"}
    /\ args.at <= Len(args.body)
    /\ LET r == tycheck_expr(args.body[args.at], vstack, block_exits, targets, typestate)
       IN  /\ last' = r.expr
           /\ diverged' = diverges(r.expr)
           /\ IF r.res = "ok"
              THEN /\ vstack' = r.vstack
                   /\ block_exits' = r.exits
                   /\ args' = [args EXCEPT !.body[args.at] = r.expr, !.at = args.at + 1]
                   /\ UNCHANGED <<pc, err>>
              ELSE /\ pc' = "panic"
                   /\ err' = r.err
                   /\ vstack' = <<>>
                   /\ block_exits' = <<>>
                   /\ args' = [args EXCEPT !.body[args.at] = r.expr]
    /\ twice_frame

\* the body is through: tycheck_function checks the result of the block
\* (validate.rs:69-75) and tycheck returns
TwiceReturn ==
    /\ pc = "block"
    /\ args.phase \in {"first", "second"}
    /\ args.at > Len(args.body)
    /\ LET ret == block_result(block_exits)
           r == function_return(file[cur].ty, ret, typestate)
       IN  /\ last' = [op |-> "Return", ret |-> ret]
           /\ IF r = "ok"
              THEN /\ pc' = "done"
                   /\ err' = err
                   /\ args' = IF args.phase = "first"
                              THEN [args EXCEPT !.body1 = args.body]
                              ELSE [args EXCEPT !.phase = "twice"]
              ELSE /\ pc' = "panic"
                   /\ err' = r
                   /\ args' = args
    /\ vstack' = <<>>
    /\ block_exits' = <<>>
    /\ diverged' = FALSE
    /\ twice_frame

\* tycheck is called on the File again: pass one reads the signatures, which
\* no instruction writes, and builds the same table
TwiceAgain ==
    /\ pc = "done"
    /\ args.phase = "first"
    /\ pc' = "block"
    /\ args' = [args EXCEPT !.phase = "second", !.at = 1]
    /\ block_exits' = <<None>>
    /\ vstack' = <<>>
    /\ last' = NoItem
    /\ UNCHANGED <<err, diverged>>
    /\ twice_frame

NextTwice == TwiceItem \/ TwiceReturn \/ TwiceAgain

SpecTwice == InitTwice /\ [][NextTwice]_vars

(***************************************************************************)
(* Termination (under SpecCalls).                                          *)
(***************************************************************************)
\* C33: every call of check_unify returns or panics, whatever the types and
\* the table, a table that is cyclic through Named included.
C33_Terminates == <>(args.phase \in {"returned", "panicked"})

\* the call by call reading and check_unify agree on every call that ends
CallsAgree ==
    /\ args.phase = "returned" => check_unify(args.ty1, args.ty2, args.tystate) = "ok"
    /\ args.phase = "panicked" => check_unify(args.ty1, args.ty2, args.tystate) = "panic"

(***************************************************************************)
(* The frame of tycheck (under SpecTwice).                                 *)
(***************************************************************************)
\* what the validator may make of an instruction of the File: the
\* instruction itself, but for a GlobalAddress constant of type Null whose
\* path the table holds, which gets the type of the table
RECURSIVE back_filled(_, _)
back_filled(expr, tystate) ==
    CASE expr.op = "Const" /\ expr.v.vtag = "GlobalAddress" /\ expr.v.ty = Null
            /\ expr.v.item \in DOMAIN tystate.tys ->
           [expr EXCEPT !.v.ty = tystate.tys[expr.v.item]]
      [] expr.op = "Derive" ->
           [expr EXCEPT !.inner = back_filled(expr.inner, tystate)]
      [] OTHER -> expr

\* C34: while tycheck runs and after it returned, an instruction it has
\* replayed differs from the instruction of the File it was given at most
\* by the type filled into a GlobalAddress constant (the pointer annotation
\* of a Derive is as it was); a second run on the File the first one left
\* does not abort and leaves every instruction as it found it.
C34_Frame ==
    /\ Len(args.body) = Len(args.body0)
    /\ \A i \in 1..Len(args.body) :
          /\ args.body[i] \in {args.body0[i], back_filled(args.body0[i], typestate)}
          /\ (pc = "done" \/ i < args.at) =>
                args.body[i] = back_filled(args.body0[i], typestate)
    /\ args.phase \in {"second", "twice"} => (pc # "panic" /\ args.body = args.body1)

\* C34, its case: the second run has returned on a body with a Derive and a
\* GlobalAddress constant that the first run filled in
C34_Witness ==
    /\ args.phase = "twice"
    /\ pc = "done"
    /\ args.body # args.body0
    /\ \E i \in 1..Len(args.body) : args.body[i].op = "Derive"
    /\ \E i \in 1..Len(args.body) :
          args.body0[i] = [op |-> "Const", v |-> GlobalAddress(Null, "f")]

(***************************************************************************)
(* The exits of one block: constants pushed and ExitBlock instructions     *)
(* replayed in the root block, with the stacks the accepted exits took     *)
(* kept in order.                                                          *)
(***************************************************************************)
InvalidValue(ty) == [vtag |-> "Invalid", ty |-> ty]

ExitValues == {InvalidValue(Null), IntegerValue(I32, 2), IntegerValue(I8, 2)}

InitExits ==
    /\ file = [f |-> Function(SigU, TRUE, <<>>)]
    /\ typestate = [tys |-> [f |-> SigU], aggregate |-> [p \in {} |-> Null]]
    /\ args = [phase |-> "exits", taken |-> <<>>]
    /\ pc = "block"
    /\ pending1 = <<>>
    /\ pending2 = <<>>
    /\ cur = "f"
    /\ checked = {"f"}
    /\ local_tys = <<>>
    /\ block_exits = <<None>>
    /\ vstack = <<>>
    /\ targets = NoTargets
    /\ rest = <<>>
    /\ diverged = FALSE
    /\ callers = <<>>
    /\ last = NoItem
    /\ err = "none"
    /\ steps = 0
    /\ balanced = TRUE
    /\ vec = NoVec

\* what a step of the replay leaves alone here
exits_frame ==
    UNCHANGED <<file, typestate, pending1, pending2, cur, checked, local_tys, targets,
                rest, callers, balanced, vec>>

\* the replay of one instruction whose arm returned r; taken is the list of
\* exit stacks after it
ExitsStep(r, taken) ==
    /\ steps < 2 * MaxItems
    /\ last' = r.expr
    /\ diverged' = diverges(r.expr)
    /\ IF r.res = "ok"
       THEN /\ Len(r.vstack) <= MaxStack
            /\ vstack' = r.vstack
            /\ block_exits' = r.exits
            /\ steps' = steps + 1
            /\ args' = [args EXCEPT !.taken = taken]
            /\ UNCHANGED <<pc, err>>
       ELSE /\ pc' = "panic"
            /\ err' = r.err
            /\ vstack' = <<>>
            /\ block_exits' = <<>>
            /\ steps' = 0
            /\ args' = args
    /\ exits_frame

ExitsConst ==
    \E v \in ExitValues :
        /\ pc = "block"
        /\ ExitsStep(expr_Const([op |-> "Const", v |-> v], vstack, block_exits, targets,
                                typestate),
                     args.taken)

ExitsExitBlock ==
    \E blk \in 0..1, values \in 0..2 :
        /\ pc = "block"
        /\ Len(args.taken) < MaxStack
        /\ ExitsStep(expr_ExitBlock([op |-> "ExitBlock", blk |-> blk, values |-> values],
                                    vstack, block_exits, typestate),
                     Append(args.taken,
                            SubSeq(vstack, Len(vstack) - values + 1, Len(vstack))))

NextExits == ExitsConst \/ ExitsExitBlock

SpecExits == InitExits /\ [][NextExits]_vars

labels_of(decls) ==
    [n \in {decls[i].num : i \in 1..Len(decls)} |->
        LET i == CHOOSE i \in 1..Len(decls) : decls[i].num = n IN decls[i].stack]

\* C36: the label table is that of the block replayed: a nested block starts
\* with the table of its own Target items alone, the enclosing block gets its
\* own table back when the nested block returns, and no instruction changes
\* the table; Branch, Switch and Const(LabelAddress) are accepted only for
\* labels of that table, and LabelAddress(n) only if label n declares the
\* empty shape.
C36_LabelScope ==
    [][/\ Accepted("Block") => targets' = labels_of(rest')
       /\ Replayed("EndBlock") => targets' = callers[Len(callers)].targets
       /\ (pc = "block" /\ pc' = "block" /\ last'.op \notin {"Block", "EndBlock"})
             => targets' = targets
       /\ Accepted("Branch") => last'.target \in DOMAIN targets
       /\ Accepted("Switch") =>
             \A i \in 1..Len(last'.cases) : last'.cases[i].targ \in DOMAIN targets
       /\ (Accepted("Const") /\ last'.v.vtag = "LabelAddress") =>
             (last'.v.n \in DOMAIN targets /\ targets[last'.v.n] = <<>>)]_vars

\* C36, its case: a nested block with labels of its own is replayed, and a
\* label of the enclosing block is none of them
C36_Witness ==
    /\ pc = "block"
    /\ callers # <<>>
    /\ last.op = "Block"
    /\ DOMAIN targets = {0, 1}
    /\ 2 \in DOMAIN callers[1].targets

(***************************************************************************)
(* More properties of check_unify on arrays (under SpecUnify).             *)
(***************************************************************************)
\* C37: two Array types unify only if their element types unify and their
\* lengths are Integer values of unifying scalar types and of equal value.
C37_ArrayElements ==
    (/\ args.phase \in {"once", "both"}
     /\ args.ty1.tag = "Array"
     /\ args.ty2.tag = "Array"
     /\ args.res = "ok")
    => /\ check_unify(args.ty1.ty, args.ty2.ty, args.tystate) = "ok"
       /\ args.ty1.len.vtag = "Integer"
       /\ args.ty2.len.vtag = "Integer"
       /\ check_unify(args.ty1.len.ty, args.ty2.len.ty, args.tystate) = "ok"
       /\ args.ty1.len.val = args.ty2.len.val

(***************************************************************************)
(* More properties of the l-value operations (under SpecOps).              *)
(***************************************************************************)
\* C38: PostInc and PostDec replayed on an l-value of scalar type T are
\* accepted and leave, in the place of the l-value, an item of type T whose
\* kind is the same for every overflow behaviour; checked, a 1-bit unsigned
\* r-value lies above it, and nothing else differs.
C38_PostIncDec ==
    [][(/\ Replayed("LValueOp")
        /\ last'.lop \in {"PostInc", "PostDec"}
        /\ vstack # <<>>
        /\ vstack[Len(vstack)].kind = "LValue"
        /\ is_scalar(vstack[Len(vstack)].ty))
          => LET n == Len(vstack) IN
             /\ pc' = "block"
             /\ SubSeq(vstack', 1, n - 1) = SubSeq(vstack, 1, n - 1)
             /\ vstack'[n].ty = vstack[n].ty
             /\ \A v \in OverflowBehaviours :
                   LET r == expr_LValueOp([last' EXCEPT !.v = v], vstack, block_exits,
                                          typestate)
                   IN  r.res = "ok" /\ r.vstack[n].kind = vstack'[n].kind
             /\ SubSeq(vstack', n + 1, Len(vstack')) =
                   (IF last'.v = "Checked"
                    THEN <<RValue(Scalar(1, 0, "Integer", 0, 0))>> ELSE <<>>)]_vars

(***************************************************************************)
(* More properties of Vec (under SpecVec).                                 *)
(***************************************************************************)
\* C39: the length of a Vec is at most its capacity, whatever was called on
\* it and whatever the size of its elements, zero included.
C39_LenCapacity == vec.phase = "live" => vec.len <= vec.cap

\* C40: write(buf) on a Vec<u8> that returns Ok(k) has k = len(buf) and
\* leaves the Vec with its previous contents followed by the bytes of buf,
\* its length grown by k.
C40_Write ==
    [][(vec.phase = "live" /\ vec'.phase = "live" /\ vars' # vars
           /\ last'.op = "write")
          => /\ last'.ret = Len(last'.buf)
             /\ vec'.items = vec.items \o last'.buf
             /\ vec'.len = vec.len + last'.ret]_vars
====
